---------------------------- MODULE Spec2Model ----------------------------
(***************************************************************************)
(* Model of the two session-transcript adapters of experience-distiller:   *)
(*   scripts/parse_claude.py    (manifest / fallback-scan backend)          *)
(*   scripts/parse_opencode.py  (SQLite and legacy file-based backends)     *)
(*                                                                         *)
(* One behaviour is one run of one adapter.  The storage is the            *)
(* environment: each unit (a manifest, a data file, a table, a row, a      *)
(* JSON file) is drawn from a bounded pool in the step in which the code   *)
(* reads it.                                                               *)
(*                                                                         *)
(* Conventions.                                                            *)
(*   - A Python string is a sequence of tokens; "" is << >>.  An ISO-8601  *)
(*     string produced by strftime is the one-token string <<sec>> where   *)
(*     sec is the whole second it names.                                   *)
(*   - Instants are integers in milliseconds.                              *)
(*   - The role / type / kind tags are TLA+ strings.                       *)
(*   - An uncaught Python exception ends the run with a traceback on the   *)
(*     diagnostic stream and exit code 1.                                  *)
(***************************************************************************)
EXTENDS Integers, Sequences, FiniteSets, TLC

\* ------------------------------------------------------------------ bounds
MaxT == 3          \* instants are 0, 500, ..., MaxT * 500 milliseconds
MaxProjects == 2   \* project directories / project hashes under the root
MaxSessions == 2   \* candidate sessions per project (or rows per table)
MaxLines == 2      \* lines per data file, messages per session

\* ------------------------------------------------------- program constants
MsPerSec == 1000   \* ms / 1000 in ms_to_iso
max_len == 200     \* default of truncate(s, max_len=200)
Ellipsis == <<".", ".", ".">>

\* -------------------------------------------------------------- utilities
Times == {k * (MsPerSec \div 2) : k \in 0..MaxT}
\* --from / --to name whole seconds
WindowTimes == {t \in Times : t % MsPerSec = 0}

Range(s) == {s[i] : i \in 1..Len(s)}

SeqsUpTo(S, n) == UNION {[1..k -> S] : k \in 0..n}

RECURSIVE Concat(_)
\* the concatenation of a sequence of sequences
Concat(ss) == IF ss = << >> THEN << >> ELSE Head(ss) \o Concat(Tail(ss))

RECURSIVE JoinNl(_)
\* "\n".join(pieces)
JoinNl(pieces) ==
    IF pieces = << >> THEN << >>
    ELSE IF Len(pieces) = 1 THEN pieces[1]
    ELSE pieces[1] \o <<"\n">> \o JoinNl(Tail(pieces))

\* a truncation that keeps max_len characters before the dots
truncate_keeping_max_len(s) ==
    IF Len(s) > max_len THEN SubSeq(s, 1, max_len) \o Ellipsis ELSE s

\* truncate(s, max_len=200) on a string
truncate(s) ==
    IF Len(s) > max_len THEN SubSeq(s, 1, max_len - 3) \o Ellipsis ELSE s

\* verbose_log(msg, is_verbose): the line it prints to the diagnostic stream
verbose_log(msg, is_verbose) ==
    IF is_verbose THEN <<"[DEBUG] " \o msg>> ELSE << >>

\* ------------------------------------------------- claude-code: timestamps
\* A stored timestamp field: absent (or not a string), an unparseable string,
\* an ISO string without a timezone designator, or one with "Z" / an offset.
None == [known |-> FALSE, aware |-> FALSE, t |-> 0]

\* parse_timestamp(ts): None, or a naive or an aware datetime
parse_timestamp(ts) ==
    IF ts.form \in {"absent", "bad"} THEN None
    ELSE [known |-> TRUE, aware |-> (ts.form = "utc"), t |-> ts.t]

\* dt_to_iso(dt): "" for None, else the instant to the whole second
dt_to_iso(dt) == IF ~dt.known THEN << >> ELSE <<dt.t \div MsPerSec>>

\* datetime comparison raises TypeError between a naive and an aware value
CompareRaises(dt) == dt.known /\ ~dt.aware


\* ------------------------------------------- claude-code: message decoding
\* Content blocks as json.loads returns them.  input.s is the text that
\* json.dumps(tool_input) (a dict) or str(tool_input) (anything else) gives.
NonDictBlock == [isdict |-> FALSE, type |-> "-"]
TextBlock(s) == [isdict |-> TRUE, type |-> "text", text |-> s, isstr |-> TRUE]
\* a "text" block whose text is a truthy non-string (a number, a list)
NonStrTextBlock == [isdict |-> TRUE, type |-> "text", text |-> <<"7">>, isstr |-> FALSE]
ToolUseBlock(name, s) == [isdict |-> TRUE, type |-> "tool_use", name |-> name, input |-> s]
ThinkingBlock(s) == [isdict |-> TRUE, type |-> "thinking", thinking |-> s]
OtherBlock == [isdict |-> TRUE, type |-> "image"]
\* tool_result whose content is a string
ToolResultStr(s) == [isdict |-> TRUE, type |-> "tool_result", inner |-> "str", s |-> s]
\* tool_result whose content is a list of blocks
ToolResultList(bs) == [isdict |-> TRUE, type |-> "tool_result", inner |-> "list", blocks |-> bs]
\* tool_result whose content is absent (default "") is ToolResultStr(<< >>)

\* "[Tool result: {}]".format(x)
ToolResultText(x) == <<"[Tool result: ">> \o x \o <<"]">>

\* "\n".join(b["text"] for b in pieces): [text, raises]; TypeError when a
\* text is not a string
JoinTexts(pieces) ==
    IF \E i \in 1..Len(pieces) : ~pieces[i].isstr
    THEN [text |-> << >>, raises |-> TRUE]
    ELSE [text |-> JoinNl([i \in 1..Len(pieces) |-> pieces[i].text]),
          raises |-> FALSE]

\* the texts collected from the inner list of a tool_result block
InnerTexts(bs) ==
    Concat([i \in 1..Len(bs) |->
        IF bs[i].isdict /\ bs[i].type = "text" THEN <<bs[i]>> ELSE << >>])

\* what a tool_result block with a list content appends, lines 263-273
ToolResultPieces(inner_texts) ==
    IF inner_texts = << >> THEN << >>
    ELSE IF JoinTexts(inner_texts).raises THEN <<NonStrTextBlock>>
    ELSE <<TextBlock(ToolResultText(truncate(JoinTexts(inner_texts).text)))>>

\* what one block of a user message appends to pieces (blocks, not yet strings)
UserPieces(block) ==
    IF ~block.isdict THEN << >>
    ELSE IF block.type = "text" THEN
        (IF block.text # << >> THEN <<block>> ELSE << >>)
    ELSE IF block.type = "tool_result" THEN
        (IF block.inner = "str"
         THEN <<TextBlock(ToolResultText(truncate(block.s)))>>
         ELSE ToolResultPieces(InnerTexts(block.blocks)))
    ELSE << >>

\* The "message" field of a data-file record:
\*   [shape |-> "absent"]  no message object, or no content in it
\*   [shape |-> "str", s |-> ...], [shape |-> "list", blocks |-> ...]
\*   [shape |-> "other"]   content of another JSON type
\* extract_user_content(message): [text, raises]
extract_user_content(message) ==
    IF message.shape = "str" THEN [text |-> message.s, raises |-> FALSE]
    ELSE IF message.shape = "list" THEN
        JoinTexts(Concat([i \in 1..Len(message.blocks) |->
                            UserPieces(message.blocks[i])]))
    ELSE [text |-> << >>, raises |-> FALSE]

\* the tool call a tool_use block becomes
ToolCallOf(block) ==
    [tool |-> block.name, input |-> truncate(block.input), output |-> << >>]

\* text blocks collected with the thinking blocks among them
AssistantTextsWithThinking(bs) ==
    Concat([i \in 1..Len(bs) |->
        IF bs[i].isdict /\ bs[i].type = "text" /\ bs[i].text # << >>
        THEN <<bs[i]>>
        ELSE IF bs[i].isdict /\ bs[i].type = "thinking"
        THEN <<[isdict |-> TRUE, type |-> "text", text |-> bs[i].thinking,
                isstr |-> TRUE]>>
        ELSE << >>])

\* the text blocks and the tool calls of an assistant message, lines 296-322
AssistantTexts(bs) ==
    Concat([i \in 1..Len(bs) |->
        IF bs[i].isdict /\ bs[i].type = "text" /\ bs[i].text # << >>
        THEN <<bs[i]>> ELSE << >>])
AssistantToolCalls(bs) ==
    Concat([i \in 1..Len(bs) |->
        IF bs[i].isdict /\ bs[i].type = "tool_use"
        THEN <<ToolCallOf(bs[i])>> ELSE << >>])

\* extract_assistant_content(message): [text, tool_calls, raises]
extract_assistant_content(message) ==
    IF message.shape # "list" THEN
        [text |-> << >>, tool_calls |-> << >>, raises |-> FALSE]
    ELSE JoinTexts(AssistantTexts(message.blocks))
         @@ [tool_calls |-> AssistantToolCalls(message.blocks)]

\* the message a user record becomes, lines 359-368
UserMessage(content, ts_iso) ==
    IF content # << >>
    THEN <<[role |-> "user", content |-> content, timestamp |-> ts_iso]>>
    ELSE << >>

\* an assistant record appended without the test "if text or tool_calls"
AssistantMessageUnchecked(r, ts_iso) ==
    IF r.tool_calls # << >>
    THEN <<[role |-> "assistant", content |-> r.text,
            timestamp |-> ts_iso, tool_calls |-> r.tool_calls]>>
    ELSE <<[role |-> "assistant", content |-> r.text, timestamp |-> ts_iso]>>

\* the message an assistant record becomes, lines 370-385
AssistantMessage(r, ts_iso) ==
    IF r.text = << >> /\ r.tool_calls = << >> THEN << >>
    ELSE IF r.tool_calls # << >>
    THEN <<[role |-> "assistant", content |-> r.text,
            timestamp |-> ts_iso, tool_calls |-> r.tool_calls]>>
    ELSE <<[role |-> "assistant", content |-> r.text, timestamp |-> ts_iso]>>

\* A line of a data file: [json, type, timestamp, message];
\* json is "blank" (empty after strip), "corrupt" (json.loads raises),
\* "nondict" (valid JSON, not an object) or "dict".
\* The messages (none or one) one line appends, lines 356-385.
LineMessages(record) ==
    IF record.json # "dict" THEN << >>
    ELSE IF record.type = "user" THEN
        UserMessage(extract_user_content(record.message).text,
                    dt_to_iso(parse_timestamp(record.timestamp)))
    ELSE IF record.type = "assistant" THEN
        AssistantMessage(extract_assistant_content(record.message),
                         dt_to_iso(parse_timestamp(record.timestamp)))
    ELSE << >>

\* whether decoding the line raises (TypeError out of "\n".join)
LineRaises(record) ==
    /\ record.json = "dict"
    /\ \/ record.type = "user" /\ extract_user_content(record.message).raises
       \/ record.type = "assistant" /\ extract_assistant_content(record.message).raises

NoResult == [source |-> "None"]

\* the least element of a set of positions, 0 if it is empty
First(S) == IF S = {} THEN 0 ELSE CHOOSE i \in S : \A j \in S : i <= j

\* the first line whose decoding raises, 0 if none
FirstRaising(lines) == First({i \in 1..Len(lines) : LineRaises(lines[i])})

\* the session record process_jsonl_session builds from its messages, lines 398-424
SessionRecord(messages, index_entry, project_path) ==
    [source |-> "claude-code",
     session_id |-> index_entry.sessionId,
     project |-> IF index_entry.projectPath # << >>
                 THEN index_entry.projectPath ELSE project_path,
     title |-> IF index_entry.firstPrompt # << >> THEN index_entry.firstPrompt
               ELSE IF index_entry.summary # << >> THEN index_entry.summary
               ELSE index_entry.sessionId,
     time_start |-> IF dt_to_iso(parse_timestamp(index_entry.created)) = << >>
                    THEN messages[1].timestamp
                    ELSE dt_to_iso(parse_timestamp(index_entry.created)),
     time_end |-> IF dt_to_iso(parse_timestamp(index_entry.modified)) = << >>
                  THEN messages[Len(messages)].timestamp
                  ELSE dt_to_iso(parse_timestamp(index_entry.modified)),
     messages |-> messages]

\* the warnings for the lines json.loads rejects, lines 349-354
LineWarnings(lines) ==
    Concat([i \in 1..Len(lines) |->
        IF lines[i].json = "corrupt" THEN <<"Corrupt JSONL line">> ELSE << >>])

\* the end of process_jsonl_session, lines 391-424; warnings are the lines
\* written to the diagnostic stream, [DEBUG] lines among them
SessionResult(messages, warnings, index_entry, project_path, verbose) ==
    IF messages = << >>
    THEN [result |-> NoResult,
          warnings |-> warnings \o
            verbose_log("Session has no user/assistant messages, skipping", verbose),
          raises |-> FALSE]
    ELSE [result |-> SessionRecord(messages, index_entry, project_path),
          warnings |-> warnings, raises |-> FALSE]

\* the loop over the lines leaving at the first line json.loads rejects
ReadLinesUntilCorrupt(lines, k, index_entry, project_path, verbose) ==
    IF k # 0
    THEN [result |-> NoResult,
          warnings |-> verbose_log("Processing JSONL", verbose)
                       \o LineWarnings(SubSeq(lines, 1, k - 1)),
          raises |-> TRUE]
    ELSE SessionResult(
            Concat([i \in 1..Len(lines) |->
                IF \E j \in 1..i : lines[j].json = "corrupt" THEN << >>
                ELSE LineMessages(lines[i])]),
            verbose_log("Processing JSONL", verbose) \o
            LineWarnings(SubSeq(lines, 1,
                First({j \in 1..Len(lines) : lines[j].json = "corrupt"} \cup {Len(lines)}))),
            index_entry, project_path, verbose)

\* the loop over the lines, of which the k-th raises (k = 0: none does)
ReadLines(lines, k, index_entry, project_path, verbose) ==
    IF k # 0
    THEN [result |-> NoResult,
          warnings |-> verbose_log("Processing JSONL", verbose)
                       \o LineWarnings(SubSeq(lines, 1, k - 1)),
          raises |-> TRUE]
    ELSE SessionResult(Concat([i \in 1..Len(lines) |-> LineMessages(lines[i])]),
                       verbose_log("Processing JSONL", verbose) \o LineWarnings(lines),
                       index_entry, project_path, verbose)

\* A data file: [status, lines]; status is "ok", "oserror" (open or read
\* fails) or "undecodable" (bytes that are not UTF-8: UnicodeDecodeError,
\* which is a ValueError and is not caught).
\* process_jsonl_session(jsonl_path, index_entry, project_path, verbose):
\* [result, warnings, raises]
process_jsonl_session(file, index_entry, project_path, verbose) ==
    IF file.status = "oserror" THEN
        [result |-> NoResult,
         warnings |-> verbose_log("Processing JSONL", verbose) \o <<"Cannot read JSONL">>,
         raises |-> FALSE]
    ELSE IF file.status = "undecodable" THEN
        [result |-> NoResult, warnings |-> verbose_log("Processing JSONL", verbose),
         raises |-> TRUE]
    ELSE ReadLines(file.lines, FirstRaising(file.lines), index_entry, project_path,
                   verbose)


\* the loop body of the filter without the isSidechain / isMeta tests
FilterEntryIgnoringFlags(entry, from_dt, to_dt, verbose) ==
    [log |-> << >>,
     verdict |->
        IF ~entry.isdict THEN "raise"
        ELSE IF CompareRaises(parse_timestamp(entry.created)) THEN "raise"
        ELSE IF parse_timestamp(entry.created).known
                /\ parse_timestamp(entry.created).t > to_dt THEN "skip"
        ELSE IF CompareRaises(parse_timestamp(entry.modified)) THEN "raise"
        ELSE IF parse_timestamp(entry.modified).known
                /\ parse_timestamp(entry.modified).t < from_dt THEN "skip"
        ELSE "keep"]

\* --------------------------------------------- claude-code: the time filter
\* A manifest entry: [isdict, sessionId, isSidechain, isMeta, created,
\* modified, firstPrompt, summary, projectPath, fullPath].
\* What the loop body of filter_sessions_by_index does with one entry:
\* [verdict, log]; verdict is "raise" (AttributeError on a non-object entry,
\* TypeError on comparing a naive with an aware datetime), "skip" or "keep",
\* log the [DEBUG] lines it prints.
FilterVerdict(verdict, log) == [verdict |-> verdict, log |-> log]

\* the loop body skipping a flagged entry only when it logs the skip
FilterEntryWhenVerbose(entry, from_dt, to_dt, verbose) ==
    IF ~entry.isdict THEN FilterVerdict("raise", << >>)
    ELSE IF entry.isSidechain /\ verbose THEN
        FilterVerdict("skip", verbose_log("Skipping sidechain session", verbose))
    ELSE IF entry.isMeta /\ verbose THEN
        FilterVerdict("skip", verbose_log("Skipping meta session", verbose))
    ELSE IF CompareRaises(parse_timestamp(entry.created)) THEN FilterVerdict("raise", << >>)
    ELSE IF parse_timestamp(entry.created).known
            /\ parse_timestamp(entry.created).t > to_dt THEN
        FilterVerdict("skip", verbose_log("Session created after range, skipping", verbose))
    ELSE IF CompareRaises(parse_timestamp(entry.modified)) THEN FilterVerdict("raise", << >>)
    ELSE IF parse_timestamp(entry.modified).known
            /\ parse_timestamp(entry.modified).t < from_dt THEN
        FilterVerdict("skip", verbose_log("Session modified before range, skipping", verbose))
    ELSE FilterVerdict("keep", << >>)

FilterEntry(entry, from_dt, to_dt, verbose) ==
    IF ~entry.isdict THEN FilterVerdict("raise", << >>)
    ELSE IF entry.isSidechain THEN
        FilterVerdict("skip", verbose_log("Skipping sidechain session", verbose))
    ELSE IF entry.isMeta THEN
        FilterVerdict("skip", verbose_log("Skipping meta session", verbose))
    ELSE LET created_dt == parse_timestamp(entry.created)
             modified_dt == parse_timestamp(entry.modified)
         IN  IF CompareRaises(created_dt) THEN FilterVerdict("raise", << >>)
             ELSE IF created_dt.known /\ created_dt.t > to_dt THEN
                FilterVerdict("skip",
                    verbose_log("Session created after range, skipping", verbose))
             ELSE IF CompareRaises(modified_dt) THEN FilterVerdict("raise", << >>)
             ELSE IF modified_dt.known /\ modified_dt.t < from_dt THEN
                FilterVerdict("skip",
                    verbose_log("Session modified before range, skipping", verbose))
             ELSE FilterVerdict("keep",
                    IF ~created_dt.known /\ ~modified_dt.known
                    THEN verbose_log("Session has no timestamps, including", verbose)
                    ELSE << >>)

\* the loop of filter_sessions_by_index from what its body does with each
\* entry, the k-th raising (k = 0: none does)
FilterLoop(entries, v, k) ==
    IF k # 0
    THEN [matched |-> << >>, log |-> Concat([i \in 1..(k - 1) |-> v[i].log]),
          raises |-> TRUE]
    ELSE [matched |-> Concat([i \in 1..Len(entries) |->
                        IF v[i].verdict = "keep" THEN <<entries[i]>> ELSE << >>]),
          log |-> Concat([i \in 1..Len(entries) |-> v[i].log]),
          raises |-> FALSE]

\* the verdicts of the loop body on the entries
FilterVerdicts(entries, from_dt, to_dt, verbose) ==
    [i \in 1..Len(entries) |-> FilterEntry(entries[i], from_dt, to_dt, verbose)]

FirstRaisingEntry(v) == First({i \in 1..Len(v) : v[i].verdict = "raise"})

\* filter_sessions_by_index(index_data, from_dt, to_dt, verbose):
\* [matched, log, raises].  index_data is [top, entries_is_list, entries].
filter_sessions_by_index(index_data, from_dt, to_dt, verbose) ==
    IF index_data.top # "dict" THEN [matched |-> << >>, log |-> << >>, raises |-> TRUE]
    ELSE IF ~index_data.entries_is_list
    THEN [matched |-> << >>, log |-> << >>, raises |-> FALSE]
    ELSE FilterLoop(index_data.entries,
            FilterVerdicts(index_data.entries, from_dt, to_dt, verbose),
            FirstRaisingEntry(FilterVerdicts(index_data.entries, from_dt, to_dt, verbose)))

\* the [DEBUG] lines of discover_jsonl_sessions
DiscoverLog(listing, from_dt, verbose) ==
    Concat([i \in 1..Len(listing) |->
        IF listing[i].mtime < from_dt
        THEN verbose_log("JSONL mtime before range, skipping", verbose) ELSE << >>])


\* a fallback scan that applies both ends of the window to the mtime
discover_jsonl_sessions_in_window(listing, from_dt, to_dt, verbose) ==
    Concat([i \in 1..Len(listing) |->
        IF listing[i].mtime < from_dt \/ listing[i].mtime > to_dt THEN << >>
        ELSE <<[isdict |-> TRUE, sessionId |-> listing[i].sessionId,
                isSidechain |-> FALSE, isMeta |-> FALSE,
                created |-> [form |-> "absent", t |-> 0],
                modified |-> [form |-> "utc",
                              t |-> (listing[i].mtime \div MsPerSec) * MsPerSec],
                firstPrompt |-> << >>, summary |-> << >>,
                projectPath |-> << >>, fullPath |-> << >>]>>])

\* discover_jsonl_sessions(project_dir, from_dt, to_dt, verbose) on a listing:
\* a sequence of [sessionId, mtime] for the *.jsonl files, in listdir order
discover_jsonl_sessions(listing, from_dt, to_dt, verbose) ==
    Concat([i \in 1..Len(listing) |->
        IF listing[i].mtime < from_dt THEN << >>
        ELSE <<[isdict |-> TRUE, sessionId |-> listing[i].sessionId,
                isSidechain |-> FALSE, isMeta |-> FALSE,
                created |-> [form |-> "absent", t |-> 0],
                \* dt_to_iso(mtime_dt): an aware string, to the second
                modified |-> [form |-> "utc",
                              t |-> (listing[i].mtime \div MsPerSec) * MsPerSec],
                firstPrompt |-> << >>, summary |-> << >>,
                projectPath |-> << >>, fullPath |-> << >>]>>])

\* ------------------------------------------------ opencode: JSON numbers
\* A JSON value read where a number of milliseconds is expected:
\*   [kind |-> "absent"]            get_nested gives None: a key is missing or
\*                                  null, or a container is not an object
\*   [kind |-> "int", t |-> n]      the integer n
\*   [kind |-> "real", t |-> n]     the non-integer n + 0.5
\*   [kind |-> "str", t |-> n]      a string (not a number)
Absent == [kind |-> "absent", t |-> 0]
IntNum(n) == [kind |-> "int", t |-> n]
RealNum(n) == [kind |-> "real", t |-> n]
Text(n) == [kind |-> "str", t |-> n]

\* isinstance(v, (int, float))
IsNumber(v) == v.kind \in {"int", "real"}

\* int(v) of a non-negative number: truncation
int(v) == v.t

\* ms_to_iso(ms): utcfromtimestamp(ms / 1000) formatted to the second
ms_to_iso(ms) == <<ms.t \div MsPerSec>>

\* a < b on numbers
NumLess(a, b) == a.t < b.t \/ (a.t = b.t /\ a.kind = "int" /\ b.kind = "real")

\* -------------------------------------------- opencode: message decoding
\* Parts as json.loads / load_json returns them.
NonDictPart == [isdict |-> FALSE, type |-> "-"]
TextPart(s) == [isdict |-> TRUE, type |-> "text", text |-> s, isstr |-> TRUE]
NonStrTextPart == [isdict |-> TRUE, type |-> "text", text |-> <<"7">>, isstr |-> FALSE]
ReasoningPart(s) == [isdict |-> TRUE, type |-> "reasoning", reasoning |-> s]
\* input / output are the strings state.input / state.output hold, or the
\* text json.dumps gives for a value that is not a string ("" when missing)
ToolPart(name, i, o) == [isdict |-> TRUE, type |-> "tool", tool |-> name,
                         input |-> i, output |-> o]
OtherPart == [isdict |-> TRUE, type |-> "step-start"]

\* parts decoded as the blocks of the other adapter are: reasoning dropped
PartTextsWithoutReasoning(part) ==
    IF part.type = "text" /\ part.text # << >> THEN <<part>> ELSE << >>

\* the text a part contributes, lines 98-106
PartTexts(part) ==
    IF part.type = "text" THEN
        (IF part.text # << >> THEN <<part>> ELSE << >>)
    ELSE IF part.type = "reasoning" THEN
        (IF part.reasoning # << >>
         THEN <<TextPart(<<"[thinking] ">> \o part.reasoning)>> ELSE << >>)
    ELSE << >>

\* tool calls collected only from the parts that carry an input
PartToolCallsWithInput(part) ==
    IF part.type = "tool" /\ part.input # << >>
    THEN <<[tool |-> part.tool, input |-> truncate(part.input),
            output |-> truncate(part.output)]>>
    ELSE << >>

\* the tool call a part contributes, lines 108-123
PartToolCalls(part) ==
    IF part.type = "tool"
    THEN <<[tool |-> part.tool, input |-> truncate(part.input),
            output |-> truncate(part.output)]>>
    ELSE << >>

\* the return value of process_parts from the joined text and the tool calls
PartsResult(joined, tool_calls) ==
    IF joined.raises THEN [content |-> << >>, tool_calls |-> << >>, raises |-> TRUE]
    ELSE [content |-> joined.text, tool_calls |-> tool_calls, raises |-> FALSE]

\* process_parts(parts): [content, tool_calls, raises]
\* raises: AttributeError on a part that is not an object, TypeError when
\* "\n".join meets a text that is not a string
process_parts(parts) ==
    IF \E i \in 1..Len(parts) : ~parts[i].isdict
    THEN [content |-> << >>, tool_calls |-> << >>, raises |-> TRUE]
    ELSE PartsResult(JoinTexts(Concat([i \in 1..Len(parts) |-> PartTexts(parts[i])])),
                     Concat([i \in 1..Len(parts) |-> PartToolCalls(parts[i])]))

\* A stored part is [json |-> "corrupt"] or [json |-> "ok", value |-> part].
CorruptPart == [json |-> "corrupt"]
Stored(part) == [json |-> "ok", value |-> part]

\* the parts that decode, in order: lines 261-266 and load_parts 399-404
DecodedParts(stored) ==
    Concat([i \in 1..Len(stored) |->
        IF stored[i].json = "ok" THEN <<stored[i].value>> ELSE << >>])

\* A stored message: [json, role, time_created, parts]
\*   json   "corrupt" (no JSON), "nondict" (JSON, not an object) or "dict"
\*   role   the "role" value ("" when missing)
\*   time_created   the value at time.created
\*   parts  its stored parts, in the order of the part query / of load_parts
\* the entry built from what process_parts returned: parse_sqlite lines
\* 268-284, process_session_file lines 433-449
EntryOf(role, msg_time, r) ==
    IF r.content = << >> /\ r.tool_calls = << >> THEN << >>
    ELSE IF r.tool_calls # << >>
    THEN <<[role |-> role, content |-> r.content,
            timestamp |-> IF IsNumber(msg_time) THEN ms_to_iso(msg_time) ELSE << >>,
            tool_calls |-> r.tool_calls]>>
    ELSE <<[role |-> role, content |-> r.content,
            timestamp |-> IF IsNumber(msg_time) THEN ms_to_iso(msg_time) ELSE << >>]>>

\* The entries (none or one) a decoded message object appends
MessageEntries(msg) ==
    EntryOf(msg.role, msg.time_created, process_parts(DecodedParts(msg.parts)))

\* build_session_result(session_id, directory, title, time_created,
\*                      time_updated, unified_messages, parent_id)
build_session_result(session_id, directory, title, time_created, time_updated, unified_messages, parent_id) ==
    LET obj == [source |-> "opencode", session_id |-> session_id,
                project |-> directory, title |-> title,
                time_start |-> IF IsNumber(time_created)
                               THEN ms_to_iso(time_created) ELSE << >>,
                time_end |-> IF IsNumber(time_updated)
                             THEN ms_to_iso(time_updated) ELSE << >>,
                messages |-> unified_messages]
    IN  IF parent_id # << >> THEN obj @@ [parent_id |-> parent_id] ELSE obj

\* whether decoding a stored message raises: AttributeError on a payload
\* that is not an object, or process_parts raising
MessageRaises(msg) ==
    \/ msg.json = "nondict"
    \/ msg.json = "dict" /\ process_parts(DecodedParts(msg.parts)).raises

\* the arrangements of 1..n
Perms(n) == {f \in [1..n -> 1..n] : \A i, j \in 1..n : i # j => f[i] # f[j]}

\* str.rstrip("/")
RECURSIVE rstrip(_)
rstrip(s) ==
    IF s # << >> /\ s[Len(s)] = "/" THEN rstrip(SubSeq(s, 1, Len(s) - 1)) ELSE s

\* ------------------------------------------------ opencode: SQLite backend
\* Column values: NULL is "absent"; INTEGER, REAL and TEXT as for JSON.  The
\* time columns have INTEGER affinity, so a stored TEXT is not numeric.
\* ORDER BY: NULL first, then numbers, then text
SqlRank(v) == IF v.kind = "absent" THEN 0 ELSE IF v.kind = "str" THEN 2 ELSE 1
SqlLess(a, b) ==
    \/ SqlRank(a) < SqlRank(b)
    \/ SqlRank(a) = SqlRank(b) /\ SqlRank(a) = 1 /\ NumLess(a, b)
    \/ SqlRank(a) = SqlRank(b) /\ SqlRank(a) = 2 /\ a.t < b.t

\* time_created >= ? AND time_created <= ?
SqlInWindow(v, from_ms, to_ms) ==
    /\ IsNumber(v)
    /\ ~NumLess(v, IntNum(from_ms))
    /\ ~NumLess(IntNum(to_ms), v)

\* the WHERE clause of the session query, lines 188-213
SessionSelected(row, proj, from_ms, to_ms) ==
    /\ proj # << >> => row.directory = proj
    /\ SqlInWindow(row.time_created, from_ms, to_ms)
    /\ ~row.archived

\* the results a query may return: the selected rows of the table in an
\* order ORDER BY key ASC allows (ties in any order)
OrderedBy(table, sel, key) ==
    LET idx == {i \in 1..Len(table) : sel[i]}
        n == Cardinality(idx)
    IN  {[k \in 1..n |-> table[p[k]]] :
            p \in {q \in [1..n -> idx] :
                    /\ \A i, j \in 1..n : i # j => q[i] # q[j]
                    /\ \A i, j \in 1..n :
                        i < j => ~SqlLess(key[q[j]], key[q[i]])}}

\* the time_created column of a table, row by row
TimeCreatedOf(table) == [i \in 1..Len(table) |-> table[i].time_created]

\* the session query without its ORDER BY clause
NoKey(table) == [i \in 1..Len(table) |-> Absent]
SelectSessionsUnordered(table, proj, from_ms, to_ms) ==
    OrderedBy(table,
              [i \in 1..Len(table) |-> SessionSelected(table[i], proj, from_ms, to_ms)],
              NoKey(table))

\* conn.execute(SELECT ... FROM session ...).fetchall(), lines 188-213
SelectSessions(table, proj, from_ms, to_ms) ==
    OrderedBy(table,
              [i \in 1..Len(table) |-> SessionSelected(table[i], proj, from_ms, to_ms)],
              TimeCreatedOf(table))

\* conn.execute(SELECT ... FROM message ...).fetchall(), lines 225-233;
\* a message row is [time_created, data]
SelectMessages(table) ==
    OrderedBy(table, [i \in 1..Len(table) |-> TRUE], TimeCreatedOf(table))

\* the entries of the messages that decode to an object, in order
UnifiedMessages(msgs) ==
    Concat([i \in 1..Len(msgs) |->
        IF msgs[i].json = "dict" THEN MessageEntries(msgs[i]) ELSE << >>])

\* the end of the loop body without the test for an empty message list
RowResultUnchecked(row, unified_messages, log, verbose) ==
    [result |-> build_session_result(row.id, row.directory, row.title,
                    row.time_created, row.time_updated, unified_messages,
                    row.parent_id),
     warnings |-> log, raises |-> FALSE]

\* the end of the loop body, lines 286-298; log holds the lines written
\* before
RowResult(row, unified_messages, log, verbose) ==
    IF unified_messages = << >>
    THEN [result |-> NoResult,
          warnings |-> log \o verbose_log("Session has no text content, skipping", verbose),
          raises |-> FALSE]
    ELSE [result |-> build_session_result(row.id, row.directory, row.title,
                        row.time_created, row.time_updated, unified_messages,
                        row.parent_id),
          warnings |-> log, raises |-> FALSE]

\* what the loop over msg_rows writes to the diagnostic stream for one
\* message row, lines 242-272: a row or a part json.loads rejects leaves no
\* line unless verbose, and a part never does
SqliteMessageLog(msg, verbose) ==
    IF msg.json = "corrupt" THEN verbose_log("Corrupt message data, skipping", verbose)
    ELSE IF msg.json = "dict" /\ ~process_parts(DecodedParts(msg.parts)).raises
            /\ MessageEntries(msg) = << >>
    THEN verbose_log("Empty message, skipping", verbose)
    ELSE << >>

\* the loop over msg_rows, of which the k-th raises (k = 0: none does)
SqliteMessages(row, msgs, k, verbose) ==
    IF k # 0
    THEN [result |-> NoResult,
          warnings |-> Concat([i \in 1..(k - 1) |-> SqliteMessageLog(msgs[i], verbose)]),
          raises |-> TRUE]
    ELSE RowResult(row, UnifiedMessages(msgs),
                   Concat([i \in 1..Len(msgs) |-> SqliteMessageLog(msgs[i], verbose)]),
                   verbose)

\* the body of the loop over rows for one row and its message rows,
\* lines 218-298: [result, warnings, raises]
SqliteSession(row, msg_rows, verbose) ==
    IF msg_rows = << >>
    THEN [result |-> NoResult,
          warnings |-> verbose_log("Session has no messages, skipping", verbose),
          raises |-> FALSE]
    ELSE SqliteMessages(row, [i \in 1..Len(msg_rows) |-> msg_rows[i].data],
            First({i \in 1..Len(msg_rows) : MessageRaises(msg_rows[i].data)}),
            verbose)

\* --------------------------------------------- opencode: file-based backend
\* A session file: [status, isdict, id, directory, dir_is_str, title, slug,
\* time_created, time_updated]; status is "ok", "corrupt" or "oserror".
\* What load_sessions does with one file, lines 340-363:
\* a warning, "skip" (outside the window) or "keep"
LoadSession(file, from_ms, to_ms) ==
    IF file.status = "corrupt" THEN "Corrupt JSON file"
    ELSE IF file.status = "oserror" THEN "Cannot read file"
    ELSE LET time_created == IF file.isdict THEN file.time_created ELSE Absent
         IN  IF time_created.kind = "absent" THEN "Missing time.created"
             ELSE IF ~IsNumber(time_created) THEN "Invalid time.created"
             ELSE IF int(time_created) < from_ms \/ int(time_created) > to_ms
                  THEN "skip"
             ELSE "keep"

\* load_sessions(session_dir, project_hash, from_ms, to_ms, verbose) on the
\* files glob returned: [sessions, warnings]
load_sessions(files, from_ms, to_ms, verbose) ==
    LET verdict(i) == LoadSession(files[i], from_ms, to_ms)
    IN  [sessions |-> Concat([i \in 1..Len(files) |->
                        IF verdict(i) = "keep" THEN <<files[i]>> ELSE << >>]),
         warnings |-> verbose_log("Found n session files", verbose) \o
                      Concat([i \in 1..Len(files) |->
                        IF verdict(i) = "keep" THEN << >>
                        ELSE IF verdict(i) = "skip"
                        THEN verbose_log("Session outside date range, skipping", verbose)
                        ELSE <<verdict(i)>>])]

\* the sort key of load_messages, line 385: time.created, default 0
SortKey(msg) ==
    IF msg.json = "dict" /\ msg.time_created.kind # "absent"
    THEN msg.time_created ELSE IntNum(0)

\* messages.sort(key=...) raises TypeError when it compares a string with a
\* number
SortRaises(msgs) ==
    \E i, j \in 1..Len(msgs) : SortKey(msgs[i]).kind = "str" /\ SortKey(msgs[j]).kind # "str"

\* the arrangement a stable sort by SortKey applies
SortOrder(msgs) ==
    CHOOSE q \in Perms(Len(msgs)) :
        \A i, j \in 1..Len(msgs) : i < j =>
            /\ ~SqlLess(SortKey(msgs[q[j]]), SortKey(msgs[q[i]]))
            /\ (~SqlLess(SortKey(msgs[q[i]]), SortKey(msgs[q[j]])) => q[i] < q[j])

Arrange(msgs, p) == [k \in 1..Len(msgs) |-> msgs[p[k]]]

\* list.sort is stable
StableSort(msgs) == Arrange(msgs, SortOrder(msgs))

\* the warnings load_json gives for the part files of one message
PartWarnings(msg) ==
    IF msg.json # "dict" THEN << >>
    ELSE Concat([i \in 1..Len(msg.parts) |->
            IF msg.parts[i].json = "corrupt" THEN <<"Corrupt JSON file">> ELSE << >>])

\* the lines load_parts writes for one message, lines 390-404; a message
\* without part files has no part directory
LoadPartsLog(msg, verbose) ==
    IF msg.json # "dict" THEN << >>
    ELSE IF msg.parts = << >> THEN verbose_log("No parts directory", verbose)
    ELSE verbose_log("Found n part files", verbose) \o PartWarnings(msg)

\* the lines one iteration of the loop over raw_messages writes, lines
\* 432-437
MessageLog(msg, verbose) ==
    LoadPartsLog(msg, verbose) \o
    (IF msg.json = "dict" /\ ~process_parts(DecodedParts(msg.parts)).raises
        /\ MessageEntries(msg) = << >>
     THEN verbose_log("Empty message, skipping", verbose) ELSE << >>)

\* the lines load_messages writes before it reads the files, lines 370-376;
\* a session without message files has no message directory
LoadMessagesLog(files, verbose) ==
    IF files = << >> THEN verbose_log("No message directory", verbose)
    ELSE verbose_log("Found n message files", verbose)

\* load_messages, lines 374-384: the files load_json reads, and its warnings
LoadedMessages(files) ==
    Concat([i \in 1..Len(files) |->
        IF files[i].json = "corrupt" THEN << >> ELSE <<files[i]>>])
LoadWarnings(files) ==
    Concat([i \in 1..Len(files) |->
        IF files[i].json = "corrupt" THEN <<"Corrupt JSON file">> ELSE << >>])

\* the end of process_session_file, lines 451-461
FileResult(session_data, unified_messages, warnings, verbose) ==
    IF unified_messages = << >>
    THEN [result |-> NoResult,
          warnings |-> warnings \o
            verbose_log("Session has no text content, skipping", verbose),
          raises |-> FALSE]
    ELSE [result |-> build_session_result(session_data.id, session_data.directory,
                        IF session_data.title # << >>
                        THEN session_data.title ELSE session_data.slug,
                        session_data.time_created, session_data.time_updated,
                        unified_messages, << >>),
          warnings |-> warnings, raises |-> FALSE]

\* the loop over raw_messages, of which the k-th raises (k = 0: none does),
\* lines 427-449
ReadMessages(session_data, raw_messages, k, load_warnings, verbose) ==
    IF k # 0
    THEN [result |-> NoResult,
          warnings |-> load_warnings \o
              Concat([i \in 1..(k - 1) |-> MessageLog(raw_messages[i], verbose)])
              \o LoadPartsLog(raw_messages[k], verbose),
          raises |-> TRUE]
    ELSE FileResult(session_data, UnifiedMessages(raw_messages),
                    load_warnings \o Concat([i \in 1..Len(raw_messages) |->
                                                MessageLog(raw_messages[i], verbose)]),
                    verbose)

\* process_session_file from the sorted messages on
SortedMessages(session_data, raw_messages, load_warnings, verbose) ==
    ReadMessages(session_data, raw_messages,
                 First({i \in 1..Len(raw_messages) : MessageRaises(raw_messages[i])}),
                 load_warnings, verbose)

\* process_session_file from the loaded messages on: load_messages' sort,
\* and lines 422-424
FromLoaded(session_data, loaded, load_warnings, verbose) ==
    IF SortRaises(loaded)
    THEN [result |-> NoResult, warnings |-> load_warnings, raises |-> TRUE]
    ELSE IF loaded = << >>
    THEN [result |-> NoResult,
          warnings |-> load_warnings \o
            verbose_log("No messages for session, skipping", verbose),
          raises |-> FALSE]
    ELSE SortedMessages(session_data, StableSort(loaded), load_warnings, verbose)

\* process_session_file(session_dir, session_data, project_path_filter,
\* verbose) on the message files glob returned: [result, warnings, raises]
process_session_file(session_data, project_path_filter, files, verbose) ==
    IF project_path_filter # << >> /\ ~session_data.dir_is_str THEN
        [result |-> NoResult, warnings |-> << >>, raises |-> TRUE]
    ELSE IF project_path_filter # << >>
            /\ rstrip(session_data.directory) # rstrip(project_path_filter) THEN
        [result |-> NoResult,
         warnings |-> verbose_log("Session dir != filter, skipping", verbose),
         raises |-> FALSE]
    ELSE FromLoaded(session_data, LoadedMessages(files),
                    verbose_log("Processing session", verbose)
                    \o LoadMessagesLog(files, verbose) \o LoadWarnings(files),
                    verbose)

\* ------------------------------------------------------------ input pools
\* scope bounds what the environment supplies in one run:
\*   "filter"   one candidate session: every flag, timestamp and directory
\*              form, every window; one plain message
\*   "message"  one candidate session with one line / message: every content
\*              form, every title and time field
\*   "session"  one candidate session with up to MaxLines lines / messages
\*   "wide"     up to MaxProjects projects of up to MaxSessions sessions,
\*              the unreadable and malformed units among them
Scopes == {"filter", "message", "session", "wide"}

Str(tok) == <<tok>>
Name(prefix, i) == <<prefix, ToString(i)>>
\* a string of n characters
Chars(n) == [i \in 1..n |-> ToString(i % 10)]
LastTime == MsPerSec * (MaxT \div 2)

EntriesLimit(sc) == IF sc = "wide" THEN MaxSessions ELSE 1
ProjectsLimit(sc) == IF sc = "wide" THEN MaxProjects ELSE 1
LinesLimit(sc) == IF sc = "session" THEN MaxLines ELSE 1

\* the sequences s of length at most n with s[i] in Pool(i)
ListsOf(Pool(_), n) ==
    {s \in SeqsUpTo(UNION {Pool(i) : i \in 1..n}, n) :
        \A i \in 1..Len(s) : s[i] \in Pool(i)}

\* --from / --to as typed: absent, unparseable, or one of the accepted forms
NoDate == {[form |-> "absent", t |-> 0], [form |-> "bad", t |-> 0]}
FromArgs(sc) ==
    NoDate \cup {[form |-> "date", t |-> w] :
                    w \in IF sc = "filter" THEN WindowTimes ELSE {0}}
ToArgs(sc) ==
    NoDate \cup {[form |-> "date", t |-> w] :
                    w \in IF sc = "filter" THEN WindowTimes ELSE {LastTime}}

\* ---- claude-code
AbsentTs == [form |-> "absent", t |-> 0]
Utc(t) == [form |-> "utc", t |-> t]
Naive(t) == [form |-> "naive", t |-> t]
AllStamps == {AbsentTs, [form |-> "bad", t |-> 0]}
             \cup {Utc(t) : t \in Times} \cup {Naive(t) : t \in Times}
FewStamps == {AbsentTs, Utc(MsPerSec \div 2)}

Entry(id, side, meta, c, m, fp, su, pp, full) ==
    [isdict |-> TRUE, sessionId |-> id, isSidechain |-> side, isMeta |-> meta,
     created |-> c, modified |-> m, firstPrompt |-> fp, summary |-> su,
     projectPath |-> pp, fullPath |-> full]
NonDictEntry == [isdict |-> FALSE]

\* the entries a manifest may hold at position i
EntryPool(sc, i) ==
    LET id == Name("s", i)
    IN  IF sc = "filter" THEN
            {Entry(id, side, meta, c, m, << >>, << >>, << >>, << >>) :
                side \in BOOLEAN, meta \in BOOLEAN, c \in AllStamps, m \in AllStamps}
        ELSE IF sc = "message" THEN
            {Entry(id, FALSE, FALSE, c, m, fp, su, pp, << >>) :
                c \in FewStamps, m \in FewStamps, fp \in {<< >>, Str("prompt")},
                su \in {<< >>, Str("summary")}, pp \in {<< >>, Str("/entry")}}
        ELSE IF sc = "session" THEN
            {Entry(id, FALSE, FALSE, c, m, << >>, << >>, << >>, << >>) :
                c \in FewStamps, m \in FewStamps}
        ELSE
            {NonDictEntry,
             Entry(id, TRUE, FALSE, AbsentTs, AbsentTs, << >>, << >>, << >>, << >>),
             Entry(<< >>, FALSE, FALSE, AbsentTs, AbsentTs, << >>, << >>, << >>, << >>),
             Entry(id, FALSE, FALSE, Naive(0), AbsentTs, << >>, << >>, << >>, << >>),
             Entry(id, FALSE, FALSE, AbsentTs, AbsentTs, << >>, << >>, << >>, Str("/full")),
             Entry(id, FALSE, FALSE, Utc(0), Utc(0), << >>, << >>, << >>, << >>)}

EntryLists(sc) ==
    LET Pool(i) == EntryPool(sc, i) IN ListsOf(Pool, EntriesLimit(sc))

\* sessions-index.json as load_sessions_index finds it
ManifestPool(sc) ==
    {[status |-> "ok", top |-> "dict", entries_is_list |-> TRUE, entries |-> es] :
        es \in EntryLists(sc)}
    \cup (IF sc \in {"wide", "filter"} THEN
            {[status |-> st, top |-> "dict", entries_is_list |-> TRUE, entries |-> << >>] :
                st \in {"absent", "corrupt", "oserror"}}
          ELSE {})
    \cup (IF sc = "wide" THEN
            {[status |-> "ok", top |-> tp, entries_is_list |-> TRUE, entries |-> << >>] :
                tp \in {"list", "null"}}
            \cup {[status |-> "ok", top |-> "dict", entries_is_list |-> FALSE, entries |-> << >>]}
          ELSE {})

\* content of a data-file record
UserMessages ==
    {[shape |-> "absent"], [shape |-> "other"],
     [shape |-> "str", s |-> << >>], [shape |-> "str", s |-> Str("hi")],
     [shape |-> "list", blocks |-> <<TextBlock(Str("a")), ToolResultStr(Str("r"))>>],
     [shape |-> "list", blocks |-> <<ToolResultList(<<TextBlock(Str("x")), OtherBlock>>)>>],
     [shape |-> "list", blocks |-> <<NonDictBlock, TextBlock(<< >>)>>],
     [shape |-> "list", blocks |-> <<ToolResultStr(Chars(max_len + 1))>>],
     [shape |-> "list", blocks |->
        <<ToolResultList(<<TextBlock(Chars(max_len - 1)), TextBlock(Str("x"))>>)>>]}
AssistantMessages ==
    {[shape |-> "str", s |-> Str("hi")],
     [shape |-> "list", blocks |-> << >>],
     [shape |-> "list", blocks |-> <<TextBlock(Str("a"))>>],
     [shape |-> "list", blocks |-> <<ThinkingBlock(Str("t"))>>],
     [shape |-> "list", blocks |-> <<ToolUseBlock(Str("Bash"), Str("{}"))>>],
     [shape |-> "list", blocks |-> <<TextBlock(Str("a")), ToolUseBlock(Str("Bash"), Str("{}"))>>],
     [shape |-> "list", blocks |-> <<OtherBlock, TextBlock(<< >>)>>],
     [shape |-> "list", blocks |-> <<NonStrTextBlock>>],
     [shape |-> "list", blocks |-> <<ToolUseBlock(Str("Bash"), Chars(max_len)),
                                     ToolUseBlock(Str("Read"), Chars(max_len + 1))>>],
     [shape |-> "list", blocks |-> <<ThinkingBlock(Str("t")), TextBlock(Str("a"))>>],
     [shape |-> "list", blocks |-> <<ThinkingBlock(Str("t")), ThinkingBlock(Str("u"))>>],
     [shape |-> "list", blocks |->
        <<TextBlock(Str("a")), ToolUseBlock(Str("Bash"), Str("{}")), OtherBlock,
          TextBlock(Str("b")), ToolUseBlock(Str("Read"), Str("{}"))>>]}

Line(j, ty, ts, msg) == [json |-> j, type |-> ty, timestamp |-> ts, message |-> msg]
LineStamps == {AbsentTs, Utc(0), Utc(MsPerSec)}
PlainLine == Line("dict", "user", AbsentTs, [shape |-> "str", s |-> Str("hi")])
LinePool(sc) ==
    IF sc = "message" THEN
        {Line(j, "-", AbsentTs, [shape |-> "absent"]) : j \in {"blank", "corrupt", "nondict"}}
        \cup {Line("dict", "system", Utc(0), [shape |-> "str", s |-> Str("hi")])}
        \cup {Line("dict", "user", ts, m) : ts \in LineStamps, m \in UserMessages}
        \cup {Line("dict", "assistant", ts, m) : ts \in LineStamps, m \in AssistantMessages}
    ELSE IF sc = "session" THEN
        {Line("corrupt", "-", AbsentTs, [shape |-> "absent"]),
         Line("dict", "user", AbsentTs, [shape |-> "str", s |-> << >>]),
         Line("dict", "assistant", Utc(0),
              [shape |-> "list", blocks |-> <<ToolUseBlock(Str("Bash"), Str("{}"))>>]),
         Line("dict", "assistant", Utc(0), [shape |-> "list", blocks |-> <<NonStrTextBlock>>])}
        \cup {Line("dict", "user", ts, [shape |-> "str", s |-> Str("hi")]) : ts \in LineStamps}
        \cup {Line("dict", "assistant", ts,
                   [shape |-> "list", blocks |-> <<TextBlock(Str("a"))>>]) : ts \in LineStamps}
    ELSE {Line("corrupt", "-", AbsentTs, [shape |-> "absent"]), PlainLine}

\* a data file as process_jsonl_session finds it
FilePool(sc) ==
    {[status |-> "ok", lines |-> ls] : ls \in SeqsUpTo(LinePool(sc), LinesLimit(sc))}
    \cup (IF sc = "wide"
          THEN {[status |-> st, lines |-> << >>] : st \in {"oserror", "undecodable"}}
          ELSE {})

\* the *.jsonl files the fallback scan may list: [sessionId, mtime]
Listings(sc) ==
    LET Pool(i) == {[sessionId |-> Name("s", i), mtime |-> t] : t \in Times}
    IN  ListsOf(Pool, EntriesLimit(sc))

\* ---- opencode
\* --project-path as typed ("" when not given)
ProjectArgs(sc) ==
    IF sc = "filter" THEN {<< >>, Str("/a/b"), <<"/a/b", "/">>} ELSE {<< >>}
Directories(sc) ==
    IF sc = "filter" THEN {<< >>, Str("/a/b"), <<"/a/b", "/">>, Str("/c")}
    ELSE {Str("/a/b")}
AllNums == {Absent, Text(0)} \cup {IntNum(t) : t \in Times} \cup {RealNum(t) : t \in Times}

\* stored parts of one message
PlainParts == <<Stored(TextPart(Str("a")))>>
PartLists(sc) ==
    IF sc = "message" THEN
        {<< >>, PlainParts,
         <<Stored(TextPart(<< >>))>>,
         <<Stored(ReasoningPart(Str("r")))>>,
         <<Stored(ReasoningPart(<< >>)), Stored(OtherPart)>>,
         <<Stored(ToolPart(Str("bash"), Str("ls"), Str("out")))>>,
         <<Stored(TextPart(Str("a"))), Stored(ToolPart(Str("bash"), << >>, << >>))>>,
         <<CorruptPart, Stored(TextPart(Str("b")))>>,
         <<Stored(NonDictPart)>>,
         <<Stored(NonStrTextPart)>>,
         <<Stored(ToolPart(Str("bash"), Chars(max_len + 1), Chars(max_len))),
           Stored(ToolPart(Str("read"), Chars(max_len - 1), Chars(2 * max_len)))>>,
         <<Stored(ReasoningPart(Str("r"))), Stored(ReasoningPart(Str("s")))>>,
         <<Stored(TextPart(Str("a"))), Stored(ToolPart(Str("bash"), Str("ls"), Str("out"))),
           Stored(ReasoningPart(Str("r"))), Stored(OtherPart), Stored(TextPart(Str("b"))),
           Stored(ToolPart(Str("read"), << >>, << >>))>>}
    ELSE IF sc = "session" THEN
        {<< >>, PlainParts, <<CorruptPart, Stored(ToolPart(Str("bash"), Str("ls"), << >>))>>}
    ELSE {PlainParts}

Message(j, role, tc, parts) ==
    [json |-> j, role |-> role, time_created |-> tc, parts |-> parts]
CorruptMessage == Message("corrupt", "", Absent, << >>)
NonDictMessage == Message("nondict", "", Absent, << >>)
PlainMessage == Message("dict", "user", Absent, PlainParts)
MessagePool(sc) ==
    IF sc = "message" THEN
        {CorruptMessage, NonDictMessage}
        \cup {Message("dict", role, tc, parts) :
                role \in {"user", "assistant", "system", ""},
                tc \in {Absent, IntNum(MsPerSec), RealNum(MsPerSec), Text(0)},
                parts \in PartLists(sc)}
    ELSE IF sc = "session" THEN
        {CorruptMessage, NonDictMessage}
        \cup {Message("dict", "user", tc, parts) :
                tc \in {Absent, IntNum(0), IntNum(MsPerSec), Text(0)},
                parts \in PartLists(sc)}
    ELSE IF sc = "wide" THEN {CorruptMessage, NonDictMessage, PlainMessage}
    ELSE {PlainMessage}

\* message files of one session as glob returns them
MessageFileLists(sc) == SeqsUpTo(MessagePool(sc), LinesLimit(sc))

\* rows of the message table for one session: [time_created, data]
MessageRowLists(sc) ==
    LET cols == IF sc = "session" THEN {IntNum(0), IntNum(MsPerSec)} ELSE {IntNum(0)}
    IN  SeqsUpTo({[time_created |-> c, data |-> m] : c \in cols, m \in MessagePool(sc)},
                 LinesLimit(sc))

Row(id, parent, dir, title, tc, tu, arch) ==
    [id |-> id, parent_id |-> parent, directory |-> dir, title |-> title,
     time_created |-> tc, time_updated |-> tu, archived |-> arch]

\* the rows the session table may hold at position i
RowPool(sc, i) ==
    LET id == Name("ses", i)
    IN  IF sc = "filter" THEN
            {Row(id, << >>, d, << >>, tc, Absent, arch) :
                d \in Directories(sc), tc \in AllNums, arch \in BOOLEAN}
        ELSE IF sc = "message" THEN
            {Row(id, par, Str("/a/b"), ti, tc, tu, FALSE) :
                par \in {<< >>, Str("ses0")}, ti \in {<< >>, Str("title")},
                tc \in {IntNum(MsPerSec \div 2)},
                tu \in {Absent, Text(0), IntNum(MsPerSec)}}
        ELSE IF sc = "session" THEN
            {Row(id, << >>, Str("/a/b"), << >>, IntNum(0), tu, FALSE) :
                tu \in {Absent, IntNum(MsPerSec)}}
        ELSE {Row(id, << >>, Str("/a/b"), << >>, tc, Absent, arch) :
                tc \in {IntNum(0), IntNum(MsPerSec)}, arch \in BOOLEAN}

SessionTables(sc) ==
    LET Pool(i) == RowPool(sc, i) IN ListsOf(Pool, EntriesLimit(sc))

SessionFile(st, isdict, id, dir, dir_is_str, title, slug, tc, tu) ==
    [status |-> st, isdict |-> isdict, id |-> id, directory |-> dir,
     dir_is_str |-> dir_is_str, title |-> title, slug |-> slug,
     time_created |-> tc, time_updated |-> tu]
BadSessionFile(st, isdict) ==
    SessionFile(st, isdict, << >>, << >>, TRUE, << >>, << >>, Absent, Absent)

\* the ses_*.json files a project hash may hold at position i
SessionFilePool(sc, i) ==
    LET id == Name("ses", i)
    IN  IF sc = "filter" THEN
            {SessionFile("ok", TRUE, id, d, TRUE, << >>, << >>, tc, Absent) :
                d \in Directories(sc), tc \in AllNums}
            \cup {SessionFile("ok", TRUE, id, Str("null"), FALSE, << >>, << >>,
                              IntNum(0), Absent)}
        ELSE IF sc = "message" THEN
            {SessionFile("ok", TRUE, id, Str("/a/b"), TRUE, ti, sl, tc, tu) :
                ti \in {<< >>, Str("title")}, sl \in {<< >>, Str("slug")},
                tc \in {IntNum(MsPerSec \div 2)},
                tu \in {Absent, Text(0), IntNum(MsPerSec)}}
        ELSE IF sc = "session" THEN
            {SessionFile("ok", TRUE, id, Str("/a/b"), TRUE, << >>, << >>, IntNum(0), tu) :
                tu \in {Absent, IntNum(MsPerSec)}}
        ELSE {BadSessionFile("corrupt", TRUE), BadSessionFile("oserror", TRUE),
              BadSessionFile("ok", FALSE)}
             \cup {SessionFile("ok", TRUE, id, Str("/a/b"), TRUE, << >>, << >>, tc, Absent) :
                    tc \in {IntNum(0), IntNum(MsPerSec)}}

SessionFileLists(sc) ==
    LET Pool(i) == SessionFilePool(sc, i) IN ListsOf(Pool, EntriesLimit(sc))

\* ------------------------------------------------------------------ state
VARIABLES
    adapter,          \* "claude" (parse_claude.py) or "opencode" (parse_opencode.py)
    scope,            \* what the environment supplies in this run
    pc,               \* position in main()
    args,             \* the --from / --to options as given
    from_dt, to_dt,   \* the parsed window (from_ms, to_ms in parse_opencode.py)
    storage_read,     \* whether the run has touched the storage yet
    project_dirs,     \* project directories still to scan
    project,          \* project_path_decoded of the directory being scanned
    index_data,       \* the manifest load_sessions_index returned, or None
    matched_entries,  \* candidates of this project still to process
    result,           \* the last value process_jsonl_session returned
    project_path,     \* the --project-path filter after rstrip("/") (opencode)
    conn,             \* the sqlite3 connection: "none", "open" or "closed"
    rows,             \* session rows fetched and still to process
    project_hashes,   \* project hashes still to scan
    sessions,         \* session files of this hash still to process
    session_count,
    root,             \* the root location: [isdir, db_file] as it is on disk
                      \* (db_file: where opencode.db is), db_path as main() found it
    read,             \* the storage unit the last step read, as it found it
    stdout,           \* the records written, one per line
    stderr,           \* the diagnostics written (warnings; no [DEBUG] lines)
    exit_code         \* -1 while running

vars == <<adapter, scope, pc, args, from_dt, to_dt, storage_read, project_dirs,
          project, index_data, matched_entries, result, project_path, conn, rows,
          project_hashes, sessions, session_count, root, read, stdout, stderr,
          exit_code>>

ClaudeVars == <<project_dirs, project, index_data, matched_entries>>
OpencodeVars == <<project_path, conn, rows, project_hashes, sessions>>

NoIndex == [status |-> "None"]

\* no storage unit read in this step
NoRead == [unit |-> "none"]

\* a date parser that accepts every string
parse_any_date(s) == [ok |-> TRUE, t |-> s.t]

\* parse_iso_date(s): [ok, t]; ValueError when no format matches
parse_iso_date(s) ==
    IF s.form = "date" THEN [ok |-> TRUE, t |-> s.t] ELSE [ok |-> FALSE, t |-> 0]

Init ==
    /\ adapter \in {"claude", "opencode"}
    /\ scope \in Scopes
    /\ pc = "start"
    /\ args = [from_date |-> [form |-> "absent", t |-> 0],
               to_date |-> [form |-> "absent", t |-> 0],
               verbose |-> FALSE]
    /\ from_dt = 0
    /\ to_dt = 0
    /\ storage_read = FALSE
    /\ project_dirs = << >>
    /\ project = << >>
    /\ index_data = NoIndex
    /\ matched_entries = << >>
    /\ result = NoResult
    /\ project_path = << >>
    /\ conn = "none"
    /\ rows = << >>
    /\ project_hashes = << >>
    /\ sessions = << >>
    /\ session_count = 0
    /\ root = [isdir |-> "unknown", db_file |-> "none", db_path |-> "None"]
    /\ read = NoRead
    /\ stdout = << >>
    /\ stderr = << >>
    /\ exit_code = -1

\* an exit that reports every early end as a failure
ExitNonZero(msgs, code) ==
    /\ stderr' = stderr \o msgs
    /\ exit_code' = 1
    /\ pc' = "done"

\* warn(msg); sys.exit(code)
Exit(msgs, code) ==
    /\ stderr' = stderr \o msgs
    /\ exit_code' = code
    /\ pc' = "done"

\* an exception nothing catches: traceback, exit code 1
Raise == Exit(<<"Traceback">>, 1)

\* main(), option checks: lines 458-472 (claude), 518-533 (opencode)
ParseArgs ==
    /\ pc = "start"
    /\ read' = NoRead
    /\ \E f \in FromArgs(scope), t \in ToArgs(scope), v \in BOOLEAN :
        /\ args' = [from_date |-> f, to_date |-> t, verbose |-> v]
        /\ IF f.form = "absent" \/ t.form = "absent" THEN
                /\ Exit(<<"Both --from and --to required">>, 1)
                /\ UNCHANGED <<from_dt, to_dt>>
           ELSE IF ~parse_iso_date(f).ok \/ ~parse_iso_date(t).ok THEN
                /\ Exit(<<"Date parse error">>, 1)
                /\ UNCHANGED <<from_dt, to_dt>>
           ELSE /\ from_dt' = parse_iso_date(f).t
                /\ to_dt' = parse_iso_date(t).t
                /\ pc' = "root"
                /\ UNCHANGED <<stderr, exit_code>>
    /\ UNCHANGED OpencodeVars
    /\ UNCHANGED <<adapter, scope, root, storage_read, project_dirs, project, index_data,
                   matched_entries, result, session_count, stdout>>

\* main(), lines 474-481
ClaudeCheckRoot ==
    /\ pc = "root" /\ adapter = "claude"
    /\ storage_read' = TRUE
    /\ read' = NoRead
    /\ \E isdir \in BOOLEAN :
        /\ root' = [isdir |-> IF isdir THEN "yes" ELSE "no", db_file |-> "none",
                    db_path |-> "None"]
        /\ IF isdir THEN
                /\ pc' = "discover"
                /\ stderr' = stderr \o verbose_log("Claude dir", args.verbose)
                                    \o verbose_log("Date range", args.verbose)
                /\ UNCHANGED exit_code
           ELSE Exit(<<"Claude directory does not exist">>, 0)
    /\ UNCHANGED OpencodeVars
    /\ UNCHANGED <<adapter, scope, args, from_dt, to_dt, project_dirs, project,
                   index_data, matched_entries, result, session_count, stdout>>

\* the lines of discover_project_dirs and of line 484
DiscoverDirsLog(how, n, verbose) ==
    (IF how = "oserror" THEN <<"Cannot list">>
     ELSE IF how = "filter" /\ n = 1 THEN verbose_log("Found project dir", verbose)
     ELSE IF how = "filter" THEN verbose_log("Project dir not found", verbose)
     ELSE << >>)
    \o verbose_log("Found n project directories", verbose)

\* discover_project_dirs(claude_dir, project_path_filter, verbose):
\* with --project-path the one encoded directory if it exists; otherwise the
\* sorted sub-directories, or none with a warning when listdir fails
DiscoverProjectDirs ==
    /\ pc = "discover"
    /\ read' = NoRead
    /\ \E how \in {"filter", "list", "oserror"}, n \in 0..ProjectsLimit(scope) :
        /\ how = "filter" => n <= 1
        /\ how = "oserror" => n = 0
        /\ project_dirs' = IF how = "filter" THEN [i \in 1..n |-> Str("/filter")]
                           ELSE [i \in 1..n |-> Name("/p", i)]
        /\ stderr' = stderr \o DiscoverDirsLog(how, n, args.verbose)
    /\ pc' = "project"
    /\ UNCHANGED OpencodeVars
    /\ UNCHANGED <<adapter, scope, root, args, from_dt, to_dt, storage_read, project,
                   index_data, matched_entries, result, session_count, stdout,
                   exit_code>>

\* load_sessions_index(project_dir, verbose) on the manifest as stored:
\* [index_data, warnings]; None for a file json.load reads as null
load_sessions_index(mf, verbose) ==
    IF mf.status = "absent" THEN
        [index_data |-> NoIndex,
         warnings |-> verbose_log("No sessions-index.json", verbose)]
    ELSE IF mf.status = "corrupt" THEN
        [index_data |-> NoIndex, warnings |-> <<"Corrupt sessions-index.json">>]
    ELSE IF mf.status = "oserror" THEN
        [index_data |-> NoIndex, warnings |-> <<"Cannot read">>]
    ELSE [index_data |-> IF mf.top = "null" THEN NoIndex ELSE mf, warnings |-> << >>]

\* main(), lines 489-491
LoadSessionsIndex ==
    /\ pc = "project" /\ project_dirs # << >>
    /\ project' = Head(project_dirs)
    /\ project_dirs' = Tail(project_dirs)
    /\ \E mf \in ManifestPool(scope) :
        /\ read' = [unit |-> "manifest", manifest |-> mf]
        /\ index_data' = load_sessions_index(mf, args.verbose).index_data
        /\ pc' = IF load_sessions_index(mf, args.verbose).index_data # NoIndex
                 THEN "filter" ELSE "fallback"
        /\ stderr' = stderr \o verbose_log("Scanning project dir", args.verbose)
                             \o load_sessions_index(mf, args.verbose).warnings
    /\ UNCHANGED OpencodeVars
    /\ UNCHANGED <<adapter, scope, root, args, from_dt, to_dt, storage_read,
                   matched_entries, result, session_count, stdout, exit_code>>

\* main(), lines 493-499
FilterSessionsByIndex ==
    /\ pc = "filter"
    /\ read' = NoRead
    /\ \E r \in {filter_sessions_by_index(index_data, from_dt, to_dt, args.verbose)} :
           IF r.raises THEN
                /\ Exit(r.log \o <<"Traceback">>, 1)
                /\ UNCHANGED matched_entries
           ELSE /\ matched_entries' = r.matched
                /\ pc' = "entries"
                /\ stderr' = stderr \o r.log
                        \o verbose_log("Index has n matching sessions", args.verbose)
                /\ UNCHANGED exit_code
    /\ UNCHANGED OpencodeVars
    /\ UNCHANGED <<adapter, scope, root, args, from_dt, to_dt, storage_read, project_dirs,
                   project, index_data, result, session_count, stdout>>

\* main(), lines 500-506
DiscoverJsonlSessions ==
    /\ pc = "fallback"
    /\ \E oserror \in BOOLEAN, listing \in Listings(scope) :
        /\ oserror => listing = << >>
        /\ read' = [unit |-> "listing", oserror |-> oserror, listing |-> listing]
        /\ matched_entries' = discover_jsonl_sessions(listing, from_dt, to_dt, args.verbose)
        /\ stderr' = stderr \o DiscoverLog(listing, from_dt, args.verbose)
                             \o (IF oserror THEN <<"Cannot list">> ELSE << >>)
                             \o verbose_log("Fallback: found n .jsonl files", args.verbose)
    /\ pc' = "entries"
    /\ UNCHANGED OpencodeVars
    /\ UNCHANGED <<adapter, scope, root, args, from_dt, to_dt, storage_read, project_dirs,
                   project, index_data, result, session_count, stdout, exit_code>>

\* where main() finds the data file of an entry, lines 513-524
Lookups(entry) ==
    IF index_data = NoIndex THEN {"project"}  \* the scan has just listed it
    ELSE {"project", "missing"}
         \cup (IF entry.fullPath # << >> THEN {"fullPath"} ELSE {})

\* a lookup that skips an entry without a data file silently
FindJsonlSilently(found) ==
    [isfile |-> found # "missing", warnings |-> << >>]

\* main(), lines 513-524: whether a data file was found, and the warning
FindJsonl(found) ==
    IF found = "missing"
    THEN [isfile |-> FALSE, warnings |-> <<"JSONL file not found">>]
    ELSE [isfile |-> TRUE, warnings |-> << >>]

\* one iteration of the loop over matched_entries, lines 508-532
ProcessEntry ==
    /\ pc = "entries" /\ matched_entries # << >>
    /\ matched_entries' = Tail(matched_entries)
    /\ \E entry \in {Head(matched_entries)} :
           IF entry.sessionId = << >> THEN
                /\ read' = NoRead
                /\ UNCHANGED <<pc, result, session_count, stdout, stderr, exit_code>>
           ELSE \E found \in Lookups(entry), file \in FilePool(scope) :
                /\ read' = [unit |-> "jsonl", found |-> found, file |-> file]
                /\ IF ~FindJsonl(found).isfile THEN
                        /\ file.lines = << >> /\ file.status = "ok"
                        /\ stderr' = stderr \o FindJsonl(found).warnings
                        /\ UNCHANGED <<pc, result, session_count, stdout, exit_code>>
                    ELSE \E r \in {process_jsonl_session(file, entry, project, args.verbose)} :
                             IF r.raises THEN
                                /\ Exit(r.warnings \o <<"Traceback">>, 1)
                                /\ UNCHANGED <<result, session_count, stdout>>
                             ELSE
                                /\ result' = r.result
                                /\ stderr' = stderr \o r.warnings
                                /\ stdout' = IF r.result # NoResult
                                             THEN Append(stdout, r.result) ELSE stdout
                                /\ session_count' = IF r.result # NoResult
                                                    THEN session_count + 1
                                                    ELSE session_count
                                /\ UNCHANGED <<pc, exit_code>>
    /\ UNCHANGED OpencodeVars
    /\ UNCHANGED <<adapter, scope, root, args, from_dt, to_dt, storage_read, project_dirs,
                   project, index_data>>

\* the loop over matched_entries ends: next project directory
EndProject ==
    /\ pc = "entries" /\ matched_entries = << >>
    /\ read' = NoRead
    /\ pc' = "project"
    /\ UNCHANGED OpencodeVars
    /\ UNCHANGED <<adapter, scope, root, args, from_dt, to_dt, storage_read, project_dirs,
                   project, index_data, matched_entries, result, session_count,
                   stdout, stderr, exit_code>>

\* main(), lines 534-535, and the normal end of the process
ClaudeFinish ==
    /\ pc = "project" /\ project_dirs = << >>
    /\ read' = NoRead
    /\ Exit(IF session_count = 0 THEN <<"No sessions found">> ELSE << >>, 0)
    /\ UNCHANGED OpencodeVars
    /\ UNCHANGED <<adapter, scope, root, args, from_dt, to_dt, storage_read, project_dirs,
                   project, index_data, matched_entries, result, session_count,
                   stdout>>

\* a lookup that tries the sessions directory only
find_db_path_here_only(db) ==
    IF db = "here" THEN "sessions_dir/opencode.db" ELSE "None"

\* find_db_path(sessions_dir) when opencode.db is a file in sessions_dir
\* ("here"), only in its parent directory ("parent"), or in neither: the
\* first candidate that is a file, or None
find_db_path(db) ==
    IF db = "here" THEN "sessions_dir/opencode.db"
    ELSE IF db = "parent" THEN "dirname(sessions_dir)/opencode.db"
    ELSE "None"

\* the [DEBUG] lines of main(), lines 541-544
MainLog(path, verbose) ==
    verbose_log("Sessions dir", verbose) \o verbose_log("Date range", verbose)
    \o (IF path # << >> THEN verbose_log("Project path filter", verbose) ELSE << >>)

\* main(), lines 535-546 and 555-557: the project-path filter, find_db_path,
\* and without a database the check that the sessions directory exists
OpencodeFindDb ==
    /\ pc = "root" /\ adapter = "opencode"
    /\ storage_read' = TRUE
    /\ read' = NoRead
    /\ \E arg \in ProjectArgs(scope), isdir \in BOOLEAN, db \in {"here", "parent", "none"} :
        /\ db = "here" => isdir
        /\ project_path' = rstrip(arg)
        /\ root' = [isdir |-> IF isdir THEN "yes" ELSE "no", db_file |-> db,
                    db_path |-> find_db_path(db)]
        /\ IF find_db_path(db) # "None" \/ isdir THEN
                /\ pc' = IF find_db_path(db) # "None" THEN "sqlite" ELSE "hashes"
                /\ stderr' = stderr \o MainLog(rstrip(arg), args.verbose)
                /\ UNCHANGED exit_code
           ELSE Exit(MainLog(rstrip(arg), args.verbose)
                     \o <<"Sessions directory does not exist">>, 0)
    /\ UNCHANGED ClaudeVars
    /\ UNCHANGED <<adapter, scope, args, from_dt, to_dt, result, conn, rows,
                   project_hashes, sessions, session_count, stdout>>

\* a traversal that closes the connection only at its normal end
ConnAfterWithoutFinally(c, raises, exhausted) ==
    IF exhausted THEN "closed" ELSE c

\* parse_sqlite, lines 186 and 300-301: the connection after a step of the
\* try block; finally conn.close() runs when the step raises and when the
\* traversal is exhausted
ConnAfter(c, raises, exhausted) ==
    IF raises \/ exhausted THEN "closed" ELSE c

\* parse_sqlite up to the loop over rows, lines 176-215
SqliteQuery ==
    /\ pc = "sqlite"
    /\ \E how \in {"ok", "no_table", "no_module", "cannot_open"},
          table \in SessionTables(scope) :
      /\ read' = IF how = "ok" THEN [unit |-> "session_table", table |-> table]
                 ELSE NoRead
      /\
        IF how = "no_module" THEN
            /\ table = << >>
            /\ Exit(<<"sqlite3 module not available", "No sessions found">>, 0)
            /\ UNCHANGED <<conn, rows>>
        ELSE IF how = "cannot_open" THEN
            \* sqlite3.connect raises, line 184: nothing to close
            /\ table = << >>
            /\ Exit(verbose_log("Using SQLite backend", args.verbose)
                    \o <<"Traceback">>, 1)
            /\ UNCHANGED <<conn, rows>>
        ELSE IF how = "no_table" THEN
            /\ table = << >>
            /\ conn' = ConnAfter("open", TRUE, FALSE)
            /\ Exit(verbose_log("Using SQLite backend", args.verbose)
                    \o <<"Traceback">>, 1)
            /\ UNCHANGED rows
        ELSE
            /\ conn' = "open"
            /\ rows' \in SelectSessions(table, rstrip(project_path), from_dt, to_dt)
            /\ pc' = "rows"
            /\ stderr' = stderr \o verbose_log("Using SQLite backend", args.verbose)
                    \o verbose_log("SQLite: found n sessions in range", args.verbose)
            /\ UNCHANGED exit_code
    /\ UNCHANGED ClaudeVars
    /\ UNCHANGED <<adapter, scope, root, args, from_dt, to_dt, storage_read, result,
                   project_path, project_hashes, sessions, session_count, stdout>>

\* one iteration of the loop over rows, lines 217-298, with main()'s print
SqliteProcessRow ==
    /\ pc = "rows" /\ rows # << >>
    /\ rows' = Tail(rows)
    /\ \E no_table \in BOOLEAN, table \in MessageRowLists(scope) :
        \E msg_rows \in SelectMessages(table) :
            \E r \in {SqliteSession(Head(rows), msg_rows, args.verbose)} :
              /\ read' = [unit |-> "message_rows", no_table |-> no_table,
                                                   msg_rows |-> msg_rows]
              /\ conn' = ConnAfter(conn, no_table \/ r.raises, FALSE)
              /\ IF no_table \/ r.raises THEN
                    /\ no_table => (scope = "wide" /\ table = << >>)
                    /\ Exit((IF no_table THEN << >> ELSE r.warnings)
                            \o <<"Traceback">>, 1)
                    /\ UNCHANGED <<result, session_count, stdout>>
                ELSE
                    /\ result' = r.result
                    /\ stdout' = IF r.result # NoResult
                                 THEN Append(stdout, r.result) ELSE stdout
                    /\ session_count' = IF r.result # NoResult
                                        THEN session_count + 1 ELSE session_count
                    /\ stderr' = stderr \o r.warnings
                    /\ UNCHANGED <<pc, exit_code>>
    /\ UNCHANGED ClaudeVars
    /\ UNCHANGED <<adapter, scope, root, args, from_dt, to_dt, storage_read,
                   project_path, project_hashes, sessions>>

\* the loop over rows ends: finally conn.close(), then main(), lines 564-565
SqliteFinish ==
    /\ pc = "rows" /\ rows = << >>
    /\ read' = NoRead
    /\ conn' = ConnAfter(conn, FALSE, TRUE)
    /\ Exit(IF session_count = 0 THEN <<"No sessions found">> ELSE << >>, 0)
    /\ UNCHANGED ClaudeVars
    /\ UNCHANGED <<adapter, scope, root, args, from_dt, to_dt, storage_read, result,
                   project_path, rows, project_hashes, sessions, session_count,
                   stdout>>

\* the lines of parse_file_based, lines 467-469, with discover_project_hashes
DiscoverHashesLog(how, n, verbose) ==
    verbose_log("Using file-based backend", verbose)
    \o (IF how = "nodir" THEN verbose_log("No session/ directory", verbose)
        ELSE IF how = "filter" /\ n = 0
        THEN verbose_log("Project hash dir not found", verbose)
        ELSE IF how = "oserror" THEN <<"Cannot list">>
        ELSE << >>)
    \o verbose_log("Found n project hashes", verbose)

\* discover_project_hashes(session_dir, project_hash_filter, verbose): none
\* without a session/ directory; with --project-hash that one hash if its
\* directory exists; otherwise the listed sub-directories, or those listed
\* before listdir fails, with a warning
DiscoverProjectHashes ==
    /\ pc = "hashes"
    /\ read' = NoRead
    /\ \E how \in {"nodir", "filter", "list", "oserror"}, n \in 0..ProjectsLimit(scope) :
        /\ how = "nodir" => n = 0
        /\ how = "filter" => n <= 1
        /\ how = "oserror" => n = 0
        /\ project_hashes' = [i \in 1..n |-> Name("h", i)]
        /\ stderr' = stderr \o DiscoverHashesLog(how, n, args.verbose)
    /\ pc' = "hash"
    /\ UNCHANGED ClaudeVars
    /\ UNCHANGED <<adapter, scope, root, args, from_dt, to_dt, storage_read, result,
                   project_path, conn, rows, sessions, session_count, stdout,
                   exit_code>>

\* parse_file_based, lines 472-473: load_sessions for the next hash
LoadSessions ==
    /\ pc = "hash" /\ project_hashes # << >>
    /\ project_hashes' = Tail(project_hashes)
    /\ \E files \in SessionFileLists(scope) :
        \E r \in {load_sessions(files, from_dt, to_dt, args.verbose)} :
            /\ read' = [unit |-> "session_files", files |-> files]
            /\ sessions' = r.sessions
            /\ stderr' = stderr \o r.warnings
                    \o verbose_log("Hash: n sessions in range", args.verbose)
    /\ pc' = "sessions"
    /\ UNCHANGED ClaudeVars
    /\ UNCHANGED <<adapter, scope, root, args, from_dt, to_dt, storage_read, result,
                   project_path, conn, rows, session_count, stdout, exit_code>>

\* one iteration of the loop over sessions, lines 475-480, with main()'s print
ProcessSessionFile ==
    /\ pc = "sessions" /\ sessions # << >>
    /\ sessions' = Tail(sessions)
    /\ \E files \in MessageFileLists(scope) :
        \E r \in {process_session_file(Head(sessions), project_path, files,
                                        args.verbose)} :
          /\ read' = [unit |-> "message_files", files |-> files]
          /\ IF r.raises THEN
                /\ Exit(r.warnings \o <<"Traceback">>, 1)
                /\ UNCHANGED <<result, session_count, stdout>>
            ELSE
                /\ result' = r.result
                /\ stderr' = stderr \o r.warnings
                /\ stdout' = IF r.result # NoResult
                             THEN Append(stdout, r.result) ELSE stdout
                /\ session_count' = IF r.result # NoResult
                                    THEN session_count + 1 ELSE session_count
                /\ UNCHANGED <<pc, exit_code>>
    /\ UNCHANGED ClaudeVars
    /\ UNCHANGED <<adapter, scope, root, args, from_dt, to_dt, storage_read,
                   project_path, conn, rows, project_hashes>>

\* the loop over sessions ends: next hash
EndHash ==
    /\ pc = "sessions" /\ sessions = << >>
    /\ read' = NoRead
    /\ pc' = "hash"
    /\ UNCHANGED ClaudeVars
    /\ UNCHANGED <<adapter, scope, root, args, from_dt, to_dt, storage_read, result,
                   project_path, conn, rows, project_hashes, sessions,
                   session_count, stdout, stderr, exit_code>>

\* main(), lines 564-565, and the normal end of the process
FileFinish ==
    /\ pc = "hash" /\ project_hashes = << >>
    /\ read' = NoRead
    /\ Exit(IF session_count = 0 THEN <<"No sessions found">> ELSE << >>, 0)
    /\ UNCHANGED ClaudeVars
    /\ UNCHANGED <<adapter, scope, root, args, from_dt, to_dt, storage_read, result,
                   project_path, conn, rows, project_hashes, sessions,
                   session_count, stdout>>

NextClaude ==
    \/ ClaudeCheckRoot
    \/ DiscoverProjectDirs
    \/ LoadSessionsIndex
    \/ FilterSessionsByIndex
    \/ DiscoverJsonlSessions
    \/ ProcessEntry
    \/ EndProject
    \/ ClaudeFinish

NextOpencode ==
    \/ OpencodeFindDb
    \/ SqliteQuery
    \/ SqliteProcessRow
    \/ SqliteFinish
    \/ DiscoverProjectHashes
    \/ LoadSessions
    \/ ProcessSessionFile
    \/ EndHash
    \/ FileFinish

Next == ParseArgs \/ NextClaude \/ NextOpencode

Spec == Init /\ [][Next]_vars

\* ----------------------------------------------------------------- claims
\* the messages of every record written so far
AllMessages == UNION {Range(stdout[i].messages) : i \in 1..Len(stdout)}

\* both options were given and parsed
ValidWindow == args.from_date.form = "date" /\ args.to_date.form = "date"

\* the record a step has just written
Written == stdout'[Len(stdout')]

\* sub is full with some elements left out, the others in their order
InOrder(sub, full) ==
    \E f \in [1..Len(sub) -> 1..Len(full)] :
        /\ \A k \in 1..Len(sub) : sub[k] = full[f[k]]
        /\ \A k, l \in 1..Len(sub) : k < l => f[k] < f[l]

\* the messages verbose_log is called with, without their parameters
DebugMessages ==
    {"Claude dir", "Corrupt message data, skipping", "Date range",
     "Empty message, skipping", "Fallback: found n .jsonl files",
     "Found n message files", "Found n part files",
     "Found n project directories", "Found n project hashes",
     "Found n session files", "Found project dir",
     "Hash: n sessions in range", "Index has n matching sessions",
     "JSONL mtime before range, skipping", "No message directory",
     "No messages for session, skipping", "No parts directory",
     "No session/ directory", "No sessions-index.json", "Processing JSONL",
     "Processing session", "Project dir not found",
     "Project hash dir not found", "Project path filter",
     "SQLite: found n sessions in range", "Scanning project dir",
     "Session created after range, skipping",
     "Session dir != filter, skipping", "Session has no messages, skipping",
     "Session has no text content, skipping",
     "Session has no timestamps, including",
     "Session has no user/assistant messages, skipping",
     "Session modified before range, skipping",
     "Session outside date range, skipping", "Sessions dir",
     "Skipping meta session", "Skipping sidechain session",
     "Using SQLite backend", "Using file-based backend"}

\* a line verbose_log wrote
IsDebug(line) == line \in {"[DEBUG] " \o m : m \in DebugMessages}

\* the lines of a stream that are not [DEBUG] lines
Quiet(lines) ==
    Concat([k \in 1..Len(lines) |-> IF IsDebug(lines[k]) THEN << >> ELSE <<lines[k]>>])

\* the lines a step has added to the diagnostic stream
Added == SubSeq(stderr', Len(stderr) + 1, Len(stderr'))

\* C1: in both adapters every record written has a non-empty messages
\* sequence; a session with no messages, or whose messages all decode to
\* nothing, writes no line.
C1_RecordsHaveMessages ==
    \A i \in 1..Len(stdout) : stdout[i].messages # << >>

\* a session was processed after another had been written, had nothing to
\* say, and left no line and no diagnostic
C1_Witness ==
    /\ stdout # << >>
    /\ result = NoResult
    /\ stderr = << >>
    /\ pc \in {"entries", "rows", "sessions"}

\* C2: a session whose manifest entry is flagged isSidechain or isMeta is
\* never written, whatever its created / modified timestamps and the window:
\* a step that writes a record takes it from an unflagged candidate.
C2_FlaggedNeverEmitted ==
    [][(adapter = "claude" /\ Len(stdout') > Len(stdout)) =>
        /\ matched_entries # << >>
        /\ ~Head(matched_entries).isSidechain
        /\ ~Head(matched_entries).isMeta
        /\ Written.session_id = Head(matched_entries).sessionId]_vars

\* a flagged entry whose timestamps lie inside the window has been filtered
\* out and the project has been processed to its end
C2_Witness ==
    /\ adapter = "claude" /\ pc = "entries" /\ index_data # NoIndex
    /\ Len(index_data.entries) = 1
    /\ index_data.entries[1].isSidechain
    /\ index_data.entries[1].created = Utc(from_dt)
    /\ index_data.entries[1].modified = Utc(to_dt)
    /\ from_dt <= to_dt
    /\ matched_entries = << >>
    /\ stdout = << >>

\* what C3 says of one entry
C3_Keep(entry, from, to) ==
    /\ ~entry.isSidechain /\ ~entry.isMeta
    /\ ~(parse_timestamp(entry.created).known
         /\ parse_timestamp(entry.created).t > to)
    /\ ~(parse_timestamp(entry.modified).known
         /\ parse_timestamp(entry.modified).t < from)

\* C3: filter_sessions_by_index keeps a non-sidechain, non-meta entry exactly
\* when not (created known and created > to) and not (modified known and
\* modified < from), bounds inclusive, an entry without timestamps kept.
C3_FilterKeepsExactly ==
    [][(/\ pc = "filter"
        /\ index_data.top = "dict" /\ index_data.entries_is_list
        /\ \A i \in 1..Len(index_data.entries) : index_data.entries[i].isdict)
       => matched_entries' =
            Concat([i \in 1..Len(index_data.entries) |->
                IF C3_Keep(index_data.entries[i], from_dt, to_dt)
                THEN <<index_data.entries[i]>> ELSE << >>])]_vars

\* from <= v <= to for a stored number v
C4_InWindow(v) ==
    /\ IsNumber(v)
    /\ from_dt <= v.t
    /\ (v.t < to_dt \/ (v.t = to_dt /\ v.kind = "int"))

\* C4: in the opencode adapter a session is a candidate only if
\* from <= time_created <= to, in the SQLite and in the file-based backend,
\* and a SQLite row that is archived is never a candidate.
C4_CandidatesInWindow ==
    [][/\ (pc = "sqlite" /\ pc' = "rows") =>
            \A i \in 1..Len(rows') :
                C4_InWindow(rows'[i].time_created) /\ ~rows'[i].archived
       /\ (pc = "hash" /\ pc' = "sessions") =>
            \A i \in 1..Len(sessions') : C4_InWindow(sessions'[i].time_created)]_vars

\* C5: with valid --from / --to nothing the storage holds is fatal: the run
\* ends with exit code 0.
C5_NothingFatal ==
    (pc = "done" /\ ValidWindow) => exit_code = 0

\* C6: when --from and --to are not both given, or one does not parse, the
\* run ends with exit code 1 and a message on the diagnostic stream ("Both
\* --from and --to required" when one is missing), writes no record, and has
\* read no storage.
C6_UsageError ==
    (pc = "done" /\ ~ValidWindow) =>
        /\ exit_code = 1
        /\ stdout = << >>
        /\ ~storage_read
        /\ stderr = IF "absent" \in {args.from_date.form, args.to_date.form}
                    THEN <<"Both --from and --to required">>
                    ELSE <<"Date parse error">>

\* only --from was given, and the run has ended
C6_Witness ==
    /\ pc = "done"
    /\ args.from_date.form = "date"
    /\ args.to_date.form = "absent"

\* C7: records are written in processing order: the output only grows at its
\* end; a record comes from the first candidate still waiting, which is then
\* dropped; the candidates of a manifest keep the order of its entries; a
\* project is begun only when the one before has no candidate left; and the
\* records of the SQLite backend are in non-decreasing time_created order.
C7_ProcessingOrder ==
    [][/\ Len(stdout') >= Len(stdout)
       /\ SubSeq(stdout', 1, Len(stdout)) = stdout
       /\ Len(stdout') > Len(stdout) =>
            /\ Len(stdout') = Len(stdout) + 1
            /\ pc = "entries" =>
                /\ Written.session_id = Head(matched_entries).sessionId
                /\ matched_entries' = Tail(matched_entries)
            /\ pc = "rows" =>
                /\ Written.session_id = Head(rows).id
                /\ rows' = Tail(rows)
            /\ pc = "sessions" =>
                /\ Written.session_id = Head(sessions).id
                /\ sessions' = Tail(sessions)
       /\ (pc = "filter" /\ pc' = "entries") =>
            InOrder(matched_entries', index_data.entries)
       /\ (pc = "project" /\ pc' # "done") =>
            /\ matched_entries = << >>
            /\ project_dirs' = Tail(project_dirs)
            /\ project' = Head(project_dirs)
       /\ conn' = "open" =>
            \A i, j \in 1..Len(stdout') :
                i < j => stdout'[i].time_start[1] <= stdout'[j].time_start[1]]_vars

\* the SQLite backend has written two records of different creation times
C7_Witness ==
    /\ conn = "open"
    /\ Len(stdout) = 2
    /\ stdout[1].time_start # stdout[2].time_start

\* C8: every message of every record is non-empty: a tool_calls field, when
\* present, is a non-empty sequence, and a message without one has a
\* non-empty content.
C8_MessagesNonEmpty ==
    \A m \in AllMessages :
        IF "tool_calls" \in DOMAIN m THEN m.tool_calls # << >>
        ELSE m.content # << >>

\* a message written with tool calls and no text
C8_Witness ==
    \E m \in AllMessages :
        /\ "tool_calls" \in DOMAIN m
        /\ m.tool_calls # << >>
        /\ m.content = << >>

\* C9: every message of every record has role "user" or "assistant",
\* whatever role is stored.
C9_RoleIsUserOrAssistant ==
    \A m \in AllMessages : m.role \in {"user", "assistant"}

\* C10: in every record the messages are chronological: of two messages with
\* known timestamps the earlier in the sequence is not the later in time.
C10_Chronological ==
    \A r \in 1..Len(stdout) :
        \A i, j \in 1..Len(stdout[r].messages) :
            (/\ i < j
             /\ stdout[r].messages[i].timestamp # << >>
             /\ stdout[r].messages[j].timestamp # << >>)
            => stdout[r].messages[i].timestamp[1] <= stdout[r].messages[j].timestamp[1]

\* ---- C11
\* what C11 says truncate gives for a string s
C11_Expected(s) ==
    IF Len(s) > max_len THEN SubSeq(s, 1, max_len - 3) \o <<".", ".", ".">> ELSE s

\* the tool_use blocks and the tool_result blocks of a data file, as stored
C11_Blocks(file, type) ==
    UNION {{l.message.blocks[k] : k \in {k \in 1..Len(l.message.blocks) :
                /\ l.message.blocks[k].isdict
                /\ l.message.blocks[k].type = type}} :
           l \in {l \in Range(file.lines) : l.json = "dict" /\ l.message.shape = "list"}}

\* the text that reaches truncate from a tool_result block
C11_Inner(block) ==
    IF block.inner = "str" THEN block.s
    ELSE JoinNl([k \in 1..Len(InnerTexts(block.blocks)) |->
                    InnerTexts(block.blocks)[k].text])

\* the tool parts of the message rows or message files of a session
C11_Parts(msgs) ==
    UNION {{m.parts[k].value : k \in {k \in 1..Len(m.parts) :
                /\ m.parts[k].json = "ok"
                /\ m.parts[k].value.type = "tool"}} :
           m \in {m \in Range(msgs) : m.json = "dict"}}

\* the tool calls of a record
C11_ToolCalls(record) ==
    UNION {Range(m.tool_calls) :
           m \in {m \in Range(record.messages) : "tool_calls" \in DOMAIN m}}

\* piece occurs in text
C11_Occurs(piece, text) ==
    \E i \in 0..(Len(text) - Len(piece)) : SubSeq(text, i + 1, i + Len(piece)) = piece

\* the stored messages a step of the opencode adapter has read
C11_Stored ==
    IF read'.unit = "message_rows"
    THEN [k \in 1..Len(read'.msg_rows) |-> read'.msg_rows[k].data]
    ELSE read'.files

\* C11: a string longer than 200 characters is cut to its first 197
\* characters followed by "...", 200 in all, and a string of at most 200 is
\* left as it is; this is what happens to the input and the output of every
\* tool call and to the inner text of every tool result a record is written
\* with, and truncating the result again changes nothing.
C11_Truncation ==
    [][(Len(stdout') > Len(stdout)) =>
        /\ \A tc \in C11_ToolCalls(Written) :
            /\ Len(tc.input) <= max_len /\ Len(tc.output) <= max_len
            /\ truncate(tc.input) = tc.input /\ truncate(tc.output) = tc.output
        /\ read'.unit = "jsonl" =>
            /\ {<<tc.tool, tc.input, tc.output>> : tc \in C11_ToolCalls(Written)}
               = {<<b.name, C11_Expected(b.input), << >> >> :
                    b \in C11_Blocks(read'.file, "tool_use")}
            /\ \A b \in C11_Blocks(read'.file, "tool_result") :
                InnerTexts(IF b.inner = "list" THEN b.blocks ELSE << >>) # << >>
                    \/ b.inner = "str"
                => \E m \in Range(Written.messages) :
                    C11_Occurs(<<"[Tool result: ">> \o C11_Expected(C11_Inner(b))
                               \o <<"]">>, m.content)
        /\ read'.unit \in {"message_rows", "message_files"} =>
            {<<tc.tool, tc.input, tc.output>> : tc \in C11_ToolCalls(Written)}
            = {<<p.tool, C11_Expected(p.input), C11_Expected(p.output)>> :
                    p \in C11_Parts(C11_Stored)}]_vars

\* a record has been written with a tool call whose input was cut and whose
\* output had exactly 200 characters
C11_Witness ==
    /\ stdout # << >>
    /\ \E tc \in C11_ToolCalls(stdout[Len(stdout)]) :
        /\ Len(tc.input) = max_len
        /\ SubSeq(tc.input, max_len - 2, max_len) = <<".", ".", ".">>
        /\ Len(tc.output) = max_len
        /\ tc.output[max_len] # "."

\* ---- C12, C13
\* the candidate a step that writes a record takes it from
Candidate ==
    IF pc = "entries" THEN Head(matched_entries)
    ELSE IF pc = "rows" THEN Head(rows)
    ELSE Head(sessions)

\* the session-level instant as an ISO string, "" when absent or not valid
C12_SessionLevel(field) ==
    IF pc = "entries" THEN dt_to_iso(parse_timestamp(field))
    ELSE IF IsNumber(field) THEN ms_to_iso(field)
    ELSE << >>

\* the session-level value when there is one, else the message's timestamp
C12_Resolved(session_iso, message_iso) ==
    IF session_iso # << >> THEN session_iso ELSE message_iso

\* C12: in every record written, by either adapter, time_start (time_end) is
\* the session-level created (modified / updated) instant when that field is
\* present and valid, and otherwise the timestamp of the first (last)
\* message of the record, so that it is empty only when that is unknown too.
C12_TimeResolution ==
    [][(Len(stdout') > Len(stdout)) =>
        /\ Written.time_start =
            C12_Resolved(C12_SessionLevel(IF pc = "entries" THEN Candidate.created
                                          ELSE Candidate.time_created),
                         Written.messages[1].timestamp)
        /\ Written.time_end =
            C12_Resolved(C12_SessionLevel(IF pc = "entries" THEN Candidate.modified
                                          ELSE Candidate.time_updated),
                         Written.messages[Len(Written.messages)].timestamp)]_vars

\* the explicit title of a candidate, "" when it has none
C13_Explicit ==
    IF pc = "entries" THEN
        (IF Candidate.firstPrompt # << >> THEN Candidate.firstPrompt
         ELSE Candidate.summary)
    ELSE IF pc = "rows" THEN Candidate.title
    ELSE (IF Candidate.title # << >> THEN Candidate.title ELSE Candidate.slug)

\* C13: in every record written, by either adapter, title is the session's
\* explicit first-prompt / summary / title field when that is not empty and
\* the record's session_id otherwise, so that title is empty only if
\* session_id is.
C13_TitleResolution ==
    [][(Len(stdout') > Len(stdout)) =>
        /\ Written.title = IF C13_Explicit # << >> THEN C13_Explicit
                           ELSE Written.session_id
        /\ Written.title = << >> => Written.session_id = << >>]_vars

\* ---- C14
\* a data file without its lines that are not JSON
C14_Valid(file) ==
    [status |-> "ok",
     lines |-> Concat([k \in 1..Len(file.lines) |->
                IF file.lines[k].json = "corrupt" THEN << >> ELSE <<file.lines[k]>>])]

\* the number of lines of a data file that are not JSON
C14_Corrupt(file) ==
    Cardinality({k \in 1..Len(file.lines) : file.lines[k].json = "corrupt"})

\* C14: when a claude-code data file has k lines that are not JSON among
\* lines that are, the step that reads it gives what it gives for the file
\* without those lines (every valid line contributes its message, in file
\* order), writes the record if there is a message at all, writes exactly k
\* warnings for the file, and does not end the run.
C14_CorruptLinesSkipped ==
    [][(/\ read'.unit = "jsonl" /\ read'.found # "missing"
        /\ read'.file.status = "ok"
        /\ FirstRaising(read'.file.lines) = 0) =>
        /\ SubSeq(stderr', 1, Len(stderr)) = stderr
        /\ Quiet(Added) = [k \in 1..C14_Corrupt(read'.file) |-> "Corrupt JSONL line"]
        /\ result' = process_jsonl_session(C14_Valid(read'.file), Candidate, project,
                                        args.verbose).result
        /\ (result' # NoResult) <=>
            (\E k \in 1..Len(read'.file.lines) : LineMessages(read'.file.lines[k]) # << >>)
        /\ stdout' = IF result' # NoResult THEN Append(stdout, result') ELSE stdout
        /\ pc' = pc /\ exit_code' = exit_code]_vars

\* a file whose first line is not JSON and whose second line is a message
\* has been read, and the record has been written
C14_Witness ==
    /\ read.unit = "jsonl" /\ read.found # "missing"
    /\ Len(read.file.lines) = 2
    /\ read.file.lines[1].json = "corrupt"
    /\ read.file.lines[2].json = "dict"
    /\ result # NoResult
    /\ stdout # << >> /\ stdout[Len(stdout)] = result
    /\ Quiet(stderr) = <<"Corrupt JSONL line">>
    /\ args.verbose

\* ---- C15
\* the stored messages among msgs that are not JSON, and the stored parts
\* that are not JSON of those that are objects
C15_CorruptIn(msgs) ==
    Len(Concat([k \in 1..Len(msgs) |->
        IF msgs[k].json = "corrupt" THEN <<k>>
        ELSE IF msgs[k].json = "dict"
        THEN Concat([j \in 1..Len(msgs[k].parts) |->
                IF msgs[k].parts[j].json = "corrupt" THEN <<j>> ELSE << >>])
        ELSE << >>]))

\* the number of malformed units the step has read and dropped
C15_Malformed ==
    IF read'.unit = "manifest" THEN
        (IF read'.manifest.status = "corrupt" THEN 1 ELSE 0)
    ELSE IF read'.unit = "jsonl" THEN
        (IF read'.found # "missing" /\ read'.file.status = "ok"
         THEN C14_Corrupt(read'.file) ELSE 0)
    ELSE IF read'.unit = "session_files" THEN
        Cardinality({k \in 1..Len(read'.files) : read'.files[k].status = "corrupt"})
    ELSE IF read'.unit \in {"message_rows", "message_files"} THEN
        C15_CorruptIn(C11_Stored)
    ELSE 0

\* something else the step has read raises
C15_Raises ==
    \/ /\ read'.unit = "jsonl"
       /\ read'.file.status = "undecodable" \/ FirstRaising(read'.file.lines) # 0
    \/ /\ read'.unit = "message_rows"
       /\ read'.no_table \/ \E k \in 1..Len(C11_Stored) : MessageRaises(C11_Stored[k])
    \/ /\ read'.unit = "message_files"
       /\ \/ \E k \in 1..Len(C11_Stored) : MessageRaises(C11_Stored[k])
          \/ SortRaises(LoadedMessages(C11_Stored))
          \/ ~Candidate.dir_is_str

\* C15: in both adapters, without --verbose, every malformed unit a step
\* drops (a manifest, a line of a data file, a session, message or part JSON
\* file, the data of a SQLite message row or part row) has its warning on the
\* diagnostic stream, and the run goes on with the units that remain.
C15_EveryDropWarned ==
    [][(~args.verbose /\ C15_Malformed > 0 /\ ~C15_Raises) =>
        /\ pc' # "done"
        /\ Len(Added) >= C15_Malformed]_vars

\* a manifest that exists and is not a JSON object with a list of entries
C16_Malformed(mf) ==
    \/ mf.status = "corrupt"
    \/ mf.status = "ok" /\ (mf.top # "dict" \/ ~mf.entries_is_list)

\* C16: in the claude-code adapter, reading a project's manifest that exists
\* but is malformed (not JSON, top level not an object, entries not a list)
\* writes a warning and sends the project to the fallback scan of its data
\* files; the project is neither filtered as a manifest nor aborted on
C16_MalformedManifestFallsBack ==
    [][(read'.unit = "manifest" /\ C16_Malformed(read'.manifest))
        => /\ Quiet(Added) # << >>
           /\ pc' = "fallback"]_vars

\* C17: in the claude-code adapter, a candidate entry whose data file is
\* found neither in the project directory nor at its fullPath is skipped
\* with exactly one warning: nothing is written to the primary output, the
\* run goes on with the remaining entries and the exit code is untouched
C17_MissingFileSkipped ==
    [][(read'.unit = "jsonl" /\ read'.found = "missing")
        => /\ Added = <<"JSONL file not found">>
           /\ stdout' = stdout /\ session_count' = session_count
           /\ pc' = "entries" /\ exit_code' = exit_code
           /\ matched_entries' = Tail(matched_entries)]_vars

\* a finished run that skipped one entry for its missing data file and
\* wrote the record of another: one record, one warning, exit code 0
C17_Witness ==
    /\ pc = "done" /\ adapter = "claude" /\ exit_code = 0
    /\ Len(stdout) = 1
    /\ Quiet(stderr) = <<"JSONL file not found">>

\* what C18 promises of a finished run
C18_Outcome ==
    /\ exit_code = 0
    /\ stdout = << >>
    /\ Len(Quiet(stderr)) = 1

\* C18 as stated: in both adapters, a run with valid --from/--to whose root
\* location does not exist ends with exit code 0, no line on the primary
\* output and exactly one warning line
C18_MissingRootAlways ==
    (pc = "done" /\ ValidWindow /\ root.isdir = "no") => C18_Outcome

\* C18 as amended: the same, for the runs in which no opencode.db is found
\* (the opencode adapter also looks for it in the parent of the root location)
C18_MissingRoot ==
    (pc = "done" /\ ValidWindow /\ root.isdir = "no" /\ root.db_path = "None")
        => C18_Outcome

\* a verbose opencode run that found neither a database nor the directory
C18_Witness ==
    /\ pc = "done" /\ adapter = "opencode" /\ args.verbose
    /\ root.isdir = "no" /\ root.db_path = "None"
    /\ Len(stderr) > 1

\* C19: in both adapters, a finished run without --verbose, with valid
\* --from/--to and an existing root, that wrote no record has exit code 0
\* and exactly one line on the diagnostic stream, the "No sessions found"
\* warning, whatever made it reject or skip each candidate
C19_NoSessionsOneWarning ==
    (pc = "done" /\ ValidWindow /\ ~args.verbose /\ root.isdir = "yes"
        /\ stdout = << >>)
    => (exit_code = 0 /\ stderr = <<"No sessions found">>)

\* the step ends as the outcome q of processing one candidate says: the
\* exception is fatal, a record is written if there is one, and the lines
\* added to the diagnostic stream are q's, [DEBUG] lines aside
C20_Outcome(q) ==
    /\ (pc' = "done") = q.raises
    /\ exit_code' = IF q.raises THEN 1 ELSE exit_code
    /\ stdout' = IF ~q.raises /\ q.result # NoResult
                 THEN Append(stdout, q.result) ELSE stdout
    /\ Quiet(Added) = Quiet(q.warnings)
                      \o (IF q.raises THEN <<"Traceback">> ELSE << >>)

\* the step is the one the run with the other value of the verbose flag
\* takes from the same state on the same storage unit
C20_SameStep(flag) ==
    /\ read'.unit = "manifest" =>
        \E q \in {load_sessions_index(read'.manifest, flag)} :
            /\ index_data' = q.index_data
            /\ pc' = IF q.index_data # NoIndex THEN "filter" ELSE "fallback"
            /\ Quiet(Added) = Quiet(q.warnings)
    /\ pc = "filter" =>
        \E q \in {filter_sessions_by_index(index_data, from_dt, to_dt, flag)} :
            /\ (pc' = "done") = q.raises
            /\ exit_code' = IF q.raises THEN 1 ELSE exit_code
            /\ ~q.raises => matched_entries' = q.matched
            /\ Quiet(Added) = Quiet(q.log)
                              \o (IF q.raises THEN <<"Traceback">> ELSE << >>)
    /\ read'.unit = "listing" =>
        /\ matched_entries' = discover_jsonl_sessions(read'.listing, from_dt, to_dt, flag)
        /\ Quiet(Added) = Quiet(DiscoverLog(read'.listing, from_dt, flag))
                          \o (IF read'.oserror THEN <<"Cannot list">> ELSE << >>)
    /\ (read'.unit = "jsonl" /\ read'.found # "missing") =>
        C20_Outcome(process_jsonl_session(read'.file, Candidate, project, flag))
    /\ (read'.unit = "message_rows" /\ ~read'.no_table) =>
        C20_Outcome(SqliteSession(Candidate, read'.msg_rows, flag))
    /\ read'.unit = "session_files" =>
        \E q \in {load_sessions(read'.files, from_dt, to_dt, flag)} :
            /\ sessions' = q.sessions
            /\ Quiet(Added) = Quiet(q.warnings)
    /\ read'.unit = "message_files" =>
        C20_Outcome(process_session_file(Candidate, project_path, read'.files, flag))

\* C20: verbose non-interference, as the condition on single steps from
\* which it follows for whole runs.  Every step of a run is the step the run
\* with the other value of the verbose flag takes on the same storage: same
\* primary output, same exit code, same continuation, same data carried on,
\* same warnings; the diagnostic streams differ in [DEBUG] lines only, and
\* without the flag no [DEBUG] line is written at all.
C20_VerboseNonInterference ==
    [][/\ C20_SameStep(~args.verbose)
       /\ ~args'.verbose => Quiet(Added) = Added]_vars

\* a finished verbose run that wrote a record, a warning and [DEBUG] lines
C20_Witness ==
    /\ pc = "done" /\ args.verbose /\ exit_code = 0
    /\ stdout # << >>
    /\ Quiet(stderr) # << >> /\ Quiet(stderr) # stderr

\* C21: in the SQLite backend of the opencode adapter the connection is
\* opened once, by the step that issues the session query, and never again;
\* the message and part queries of a row are issued on the open connection;
\* and every step that ends the run (the last row done, no rows, a query or
\* the decoding of a row raising) leaves the connection closed
C21_ConnectionLifecycle ==
    [][/\ (conn = "none" /\ conn' # "none") => pc = "sqlite"
       /\ (pc = "sqlite" /\ pc' = "rows") => (conn = "none" /\ conn' = "open")
       /\ conn = "open" => conn' \in {"open", "closed"}
       /\ conn = "closed" => conn' = "closed"
       /\ read'.unit = "message_rows" => conn = "open"
       /\ pc' = "done" => conn' # "open"]_vars

\* a run that wrote a record and then ended on an exception raised in the
\* middle of the traversal, with the connection closed
C21_Witness ==
    /\ pc = "done" /\ exit_code = 1
    /\ stdout # << >>
    /\ conn = "closed"

\* the stored directory matches the filter, trailing slashes stripped
C22_Matches(directory) == rstrip(directory) = rstrip(project_path)

\* C22: in the opencode adapter with a project path filter, a session in the
\* time window is taken exactly when its stored directory equals the filter
\* after trailing slashes are stripped from both, in both backends.  SQLite
\* backend: the rows fetched are the rows of the table in the window, not
\* archived, whose directory matches.  File-based backend: a session whose
\* directory does not match writes nothing, and one whose directory matches
\* is processed as it is without a filter.
C22_ProjectPathFilter ==
    [][project_path # << >> =>
        /\ read'.unit = "session_table" =>
            \A i \in 1..Len(read'.table) :
                (read'.table[i] \in Range(rows'))
                <=> /\ SqlInWindow(read'.table[i].time_created, from_dt, to_dt)
                    /\ ~read'.table[i].archived
                    /\ C22_Matches(read'.table[i].directory)
        /\ (read'.unit = "message_files" /\ Candidate.dir_is_str) =>
            IF C22_Matches(Candidate.directory)
            THEN C20_Outcome(process_session_file(Candidate, << >>, read'.files,
                                                  args.verbose))
            ELSE stdout' = stdout /\ pc' = pc]_vars

\* an assistant record of a data file whose content blocks are all thinking
C23_ThinkingOnly(l) ==
    /\ l.json = "dict" /\ l.type = "assistant" /\ l.message.shape = "list"
    /\ l.message.blocks # << >>
    /\ \A k \in 1..Len(l.message.blocks) :
        l.message.blocks[k].isdict /\ l.message.blocks[k].type = "thinking"

\* a data file without its records of thinking blocks only
C23_WithoutThinkingOnly(file) ==
    [status |-> file.status,
     lines |-> Concat([k \in 1..Len(file.lines) |->
                IF C23_ThinkingOnly(file.lines[k]) THEN << >> ELSE <<file.lines[k]>>])]

\* a stored message whose parts are all reasoning parts with a text
C23_ReasoningOnly(msg) ==
    /\ msg.json = "dict" /\ msg.parts # << >>
    /\ \A k \in 1..Len(msg.parts) :
        /\ msg.parts[k].json = "ok"
        /\ msg.parts[k].value.isdict
        /\ msg.parts[k].value.type = "reasoning"
        /\ msg.parts[k].value.reasoning # << >>

\* "[thinking] " + text for each part, joined by newlines
C23_Thinking(msg) ==
    JoinNl([k \in 1..Len(msg.parts) |->
                <<"[thinking] ">> \o msg.parts[k].value.reasoning])

\* C23: reasoning-only messages.  claude-code: the step that reads a data
\* file gives the messages it gives for the file without its assistant
\* records of thinking blocks only (such a record contributes no message),
\* and no thinking text of the file occurs in a content of the record it
\* writes.  opencode, both backends: a session whose stored messages all
\* consist of reasoning parts with a text is written with one message for
\* each, its content the newline-join of "[thinking] " + text of its parts.
C23_ReasoningOnlyMessages ==
    [][/\ (read'.unit = "jsonl" /\ read'.found # "missing" /\ pc' # "done") =>
            /\ result' = process_jsonl_session(C23_WithoutThinkingOnly(read'.file),
                            Candidate, project, args.verbose).result
            /\ stdout' # stdout =>
                \A b \in C11_Blocks(read'.file, "thinking") :
                    \A k \in 1..Len(Written.messages) :
                        ~C11_Occurs(b.thinking, Written.messages[k].content)
       /\ (/\ read'.unit \in {"message_rows", "message_files"}
           /\ pc' # "done"
           /\ project_path = << >> \/ C22_Matches(Candidate.directory)
           /\ C11_Stored # << >>
           /\ \A k \in 1..Len(C11_Stored) : C23_ReasoningOnly(C11_Stored[k])) =>
            /\ stdout' # stdout
            /\ Len(Written.messages) = Len(C11_Stored)
            /\ \A k \in 1..Len(C11_Stored) :
                \E j \in 1..Len(Written.messages) :
                    /\ Written.messages[j].content = C23_Thinking(C11_Stored[k])
                    /\ "tool_calls" \notin DOMAIN Written.messages[j]]_vars

\* a run whose last step read an assistant record of two thinking blocks
\* and wrote nothing
C23_ThinkingDropped ==
    /\ adapter = "claude" /\ read.unit = "jsonl" /\ read.found # "missing"
    /\ read.file.lines # << >> /\ C23_ThinkingOnly(read.file.lines[1])
    /\ Len(read.file.lines[1].message.blocks) = 2
    /\ stdout = << >> /\ pc = "entries"

\* a finished run that wrote the message of two reasoning parts
C23_Witness ==
    /\ adapter = "opencode" /\ pc = "done" /\ exit_code = 0
    /\ stdout # << >>
    /\ \E k \in 1..Len(stdout[1].messages) :
            stdout[1].messages[k].content
                = <<"[thinking] ", "r", "\n", "[thinking] ", "s">>

\* a step wrote a record for a session that holds one assistant message
C24_Case ==
    /\ stdout' # stdout
    /\ \/ /\ read'.unit = "jsonl" /\ read'.found # "missing"
          /\ Len(read'.file.lines) = 1
          /\ read'.file.lines[1].json = "dict"
          /\ read'.file.lines[1].type = "assistant"
          /\ read'.file.lines[1].message.shape = "list"
       \/ /\ read'.unit \in {"message_rows", "message_files"}
          /\ Len(C11_Stored) = 1
          /\ C11_Stored[1].json = "dict"
          /\ C11_Stored[1].role = "assistant"

\* the blocks of that message, as decoded from storage
C24_Blocks ==
    IF read'.unit = "jsonl" THEN read'.file.lines[1].message.blocks
    ELSE DecodedParts(C11_Stored[1].parts)

\* the names of the tool blocks, in block order
C24_Names(bs) ==
    Concat([i \in 1..Len(bs) |->
        IF adapter = "claude" /\ bs[i].type = "tool_use" THEN <<bs[i].name>>
        ELSE IF adapter = "opencode" /\ bs[i].type = "tool" THEN <<bs[i].tool>>
        ELSE << >>])

\* the non-empty texts of the text blocks, in block order; with_reasoning:
\* and for the opencode adapter "[thinking] " + text of the reasoning parts
C24_Texts(bs, with_reasoning) ==
    Concat([i \in 1..Len(bs) |->
        IF bs[i].type = "text" /\ bs[i].text # << >> THEN <<bs[i].text>>
        ELSE IF with_reasoning /\ adapter = "opencode" /\ bs[i].type = "reasoning"
                /\ bs[i].reasoning # << >>
        THEN <<<<"[thinking] ">> \o bs[i].reasoning>>
        ELSE << >>])

\* the message m written is the decoding of the blocks: content from texts,
\* one tool call for each name, in order
C24_Decoded(m, texts, names) ==
    /\ Len(Written.messages) = 1
    /\ m.content = JoinNl(texts)
    /\ IF names = << >> THEN "tool_calls" \notin DOMAIN m
       ELSE /\ "tool_calls" \in DOMAIN m
            /\ Len(m.tool_calls) = Len(names)
            /\ \A i \in 1..Len(names) :
                /\ m.tool_calls[i].tool = names[i]
                /\ adapter = "claude" => m.tool_calls[i].output = << >>

\* C24 as stated: the message written for an assistant message has one tool
\* call for each tool_use (claude-code) or tool (opencode) block, in block
\* order and under the block's name, its content is the newline-join of the
\* non-empty text blocks in block order, blocks of any other type contribute
\* nothing, and in the claude-code adapter every tool call's output is empty
C24_OnlyTextAndTools ==
    [][C24_Case =>
        C24_Decoded(Written.messages[1], C24_Texts(C24_Blocks, FALSE),
                    C24_Names(C24_Blocks))]_vars

\* C24 as amended: the same, except that in the opencode adapter a reasoning
\* part with a text contributes "[thinking] " + text to the content, in
\* block order with the text parts
C24_BlockOrderAndCount ==
    [][C24_Case =>
        C24_Decoded(Written.messages[1], C24_Texts(C24_Blocks, TRUE),
                    C24_Names(C24_Blocks))]_vars

\* a finished run that wrote an assistant message decoded from text, tool,
\* reasoning and other parts: two tool calls, three lines of content
C24_Witness ==
    /\ adapter = "opencode" /\ pc = "done" /\ exit_code = 0
    /\ stdout # << >>
    /\ stdout[1].messages[1].role = "assistant"
    /\ stdout[1].messages[1].content = <<"a", "\n", "[thinking] ", "r", "\n", "b">>
    /\ Len(stdout[1].messages[1].tool_calls) = 2

\* C25: the opencode adapter selects its backend once, at the step that
\* looks for opencode.db, and the selection is exclusive.  When the file is
\* in the sessions directory or in its parent the run goes to the SQLite
\* backend whether or not the sessions directory exists, and no step of it
\* lists project hashes (where --project-hash applies) or reads a session,
\* message or part file; when the file is in neither place no step opens a
\* connection or reads a table.
C25_BackendSelection ==
    [][adapter = "opencode" =>
        /\ root.isdir # "unknown" => root' = root
        /\ (pc = "root" /\ root'.db_file # "none") => pc' = "sqlite"
        /\ (pc = "root" /\ root'.db_file = "none") => pc' \in {"hashes", "done"}
        /\ root'.db_file # "none" =>
            /\ pc' \notin {"hashes", "hash", "sessions"}
            /\ read'.unit \notin {"session_files", "message_files"}
        /\ root'.db_file = "none" =>
            /\ pc' \notin {"sqlite", "rows"}
            /\ read'.unit \notin {"session_table", "message_rows"}
            /\ conn' = "none"]_vars

\* a finished run that wrote a record from the database found in the parent
\* of a sessions directory that does not exist
C25_Witness ==
    /\ adapter = "opencode" /\ pc = "done" /\ exit_code = 0
    /\ root.isdir = "no" /\ root.db_file = "parent"
    /\ stdout # << >>
    /\ conn = "closed"

\* the session ids of the listed data files whose modification time is not
\* before from, in listing order
C26_Kept(listing) ==
    Concat([i \in 1..Len(listing) |->
        IF listing[i].mtime >= from_dt THEN <<listing[i].sessionId>> ELSE << >>])

\* C26: in the fallback scan of the claude-code adapter the window is
\* applied to one side only.  The candidates are the listed data files whose
\* modification time is not before from, those modified after to among
\* them, each with an empty created, firstPrompt, summary and projectPath;
\* the record written for such a candidate has the session id as its title
\* and the decoded directory name as its project.
C26_FallbackScan ==
    [][/\ read'.unit = "listing" =>
            /\ Len(matched_entries') = Len(C26_Kept(read'.listing))
            /\ \A k \in 1..Len(matched_entries') :
                /\ matched_entries'[k].sessionId = C26_Kept(read'.listing)[k]
                /\ matched_entries'[k].created.form = "absent"
                /\ matched_entries'[k].firstPrompt = << >>
                /\ matched_entries'[k].summary = << >>
                /\ matched_entries'[k].projectPath = << >>
       /\ (read'.unit = "jsonl" /\ index_data = NoIndex /\ stdout' # stdout) =>
            /\ Written.session_id = Candidate.sessionId
            /\ Written.title = Candidate.sessionId
            /\ Written.project = project]_vars

\* a finished run whose fallback scan took a data file modified after to and
\* wrote its record
C26_Witness ==
    /\ adapter = "claude" /\ pc = "done" /\ exit_code = 0
    /\ index_data = NoIndex
    /\ read.unit = "none"
    /\ Len(stdout) = 1
    /\ stdout[1].title = stdout[1].session_id
    /\ stdout[1].time_end # << >> /\ stdout[1].time_end[1] * MsPerSec > to_dt

====
